---- MODULE Spec2Model ----
(***************************************************************************)
(* Model of the course generation workflow of fluentpro-backend            *)
(* (src/course/course_generation_workflow.py): the LangGraph state machine *)
(* orchestrator -> parallel_workers -> evaluator -> (retry | worker2) ->   *)
(* aggregator -> END, its run state, and the two thread pools.             *)
(*                                                                         *)
(* Further sections model the segmentation stage (langgraph_rag.py), the   *)
(* course-generation task and the document pipeline (tasks.py).            *)
(*                                                                         *)
(* Indices are 0-based as in the source; TLA+ sequences are 1-based, so    *)
(* the topic pair of index i is topic_pairs[i + 1].                        *)
(***************************************************************************)
EXTENDS Integers, Sequences, FiniteSets, TLC

\* ---------------------------------------------------------------- bounds
MaxTopics == 2
NumLessons == 2

\* Paragraphs of a document handed to the segmentation stage, and how many
\* of them may exceed the chunk limit on their own.
MaxParagraphs == 4
MaxOversized == 1

\* Topics of a document in the runs that load the thread pools past
\* their caps.
MaxPoolUnits == 6

\* Executions of the course-generation task for one document, and documents
\* one check can queue.
MaxExecutions == 2
MaxDocs == 3

\* ------------------------------------------------------ program constants
MaxEvalRetries == 3
max_retries == 3
GenPoolCap == 5
ExpPoolCap == 3

VARIABLES
    pc,                 \* position of the coordinating thread in the graph
    exception,          \* exception that left process_document ("" = none)
    role, industry,     \* WorkflowState fields
    topic_pairs,
    worker_outputs,
    evaluation_results,
    retry_count,
    failed_indices,
    final_courses,
    current_step,
    error,
    pool_max,           \* max_workers of the live ThreadPoolExecutor
    pool_queue,         \* submitted work items no pool thread has taken yet (FIFO)
    pool_running,       \* indices whose work item a pool thread holds
    pool_results,       \* local list filled by the as_completed loop
    sent_feedback,      \* feedback argument of the generation tasks of the live pool
    retries_of,         \* times each index was resubmitted through the retry edge
    retry_edges,        \* traversals of the evaluator -> parallel_workers edge
    extraction,         \* outcome of the orchestrator's extraction calls
    gen_failed,         \* indices whose generation work item raised in the latest pass
    unordered_arrival,  \* the latest generation pass collected results out of index order
    failing_passes,     \* evaluation passes that found at least one failing unit
    lessons_failed,     \* pairs <<index, lesson position>> whose expansion call raised
    status_callback,    \* self.status_callback: "none" or a callback
    earlier_call,       \* how the previous process_document call on this object ended
    rag_pc,             \* position of RAGProcessor.process_document
    content,            \* GraphState["content"]
    chunks,             \* chunks of process_content
    chunk_index,        \* loop index i of process_content
    chunk_results,      \* chunk_results of process_content
    structured_output,  \* GraphState["structured_output"]
    rag_error,          \* GraphState["error"]
    last_calls,         \* outcomes of the generator calls of the work item collected last
    lesson_calls,       \* generation calls made for each lesson of the collected unit of an index
    judge_raised,       \* indices whose judgment call raised in the latest evaluation pass
    task_pc,            \* position of generate_courses_for_document_safe
    gen_status,         \* status of the CourseGenerationStatus record this execution created
    task_retry_count,   \* retry_count of generate_courses_for_document_safe
    saved_courses,      \* GeneratedCourse rows of the document, each with the workflow run it came from
    executions,         \* executions of generate_courses_for_document_safe so far
    workflow_runs,      \* workflow objects constructed so far
    new_docs,           \* new_docs of check_for_new_docs
    broker,             \* task messages waiting at the Celery broker
    running,            \* task messages a worker is executing
    events              \* starts and ends of task executions, in order

vars == << pc, exception, role, industry, topic_pairs, worker_outputs,
           evaluation_results, retry_count, failed_indices, final_courses,
           current_step, error, pool_max, pool_queue, pool_running,
           pool_results, sent_feedback, retries_of,
           retry_edges, extraction, gen_failed, unordered_arrival,
           failing_passes,
           lessons_failed,
           status_callback,
           earlier_call,
           rag_pc, content, chunks, chunk_index, chunk_results,
           structured_output, rag_error,
           last_calls,
           lesson_calls,
           judge_raised,
           task_pc, gen_status, task_retry_count, saved_courses, executions,
           workflow_runs, new_docs, broker, running, events >>

ragVars == << rag_pc, content, chunks, chunk_index, chunk_results,
              structured_output, rag_error >>

taskVars == << task_pc, gen_status, task_retry_count, saved_courses,
               executions, workflow_runs >>

pipelineVars == << new_docs, broker, running, events >>

celeryVars == << taskVars, pipelineVars >>

workflowVars == << pc, exception, role, industry, topic_pairs, worker_outputs,
                   evaluation_results, retry_count, failed_indices,
                   final_courses, current_step, error, pool_max, pool_queue,
                   pool_running, pool_results, sent_feedback, retries_of,
                   retry_edges, extraction, gen_failed, unordered_arrival,
                   failing_passes, lessons_failed, status_callback,
                   earlier_call, last_calls, lesson_calls, judge_raised >>

stateVars == << role, industry, topic_pairs, worker_outputs,
                evaluation_results, retry_count, failed_indices,
                final_courses, current_step, error >>

poolVars == << pool_max, pool_queue, pool_running, pool_results >>

\* ------------------------------------------------------------ data values
Min(a, b) == IF a < b THEN a ELSE b

Range(s) == { s[k] : k \in 1..Len(s) }

\* The topic/description pair the extraction call returns at position k.
TopicPair(k) == [topic |-> 10 + k, description |-> 20 + k]

NoPair == [topic |-> -1, description |-> -1]

NoFeedback == [src |-> "none", of |-> -1, pass |-> -1]

\* Lesson stubs of a CourseWithLessons answer holding n lessons.
LessonStubs(n) ==
    [k \in 1..n |-> [lesson_number |-> k,
                     lesson_title |-> 100 + k,
                     lesson_introduction |-> 200 + k]]

\* Variant: every draft is joined to the topic pair of unit 0.
DraftResult_first_pair(index, pair, pass, n) ==
    [index |-> index,
     error |-> "",
     topic_pair |-> [topic |-> 10, description |-> 20],
     course_name |-> [of |-> index, pass |-> pass],
     lessons |-> [k \in 1..n |-> [lesson_number |-> k,
                                  lesson_title |-> 100 + k,
                                  lesson_introduction |-> 200 + k]]]

\* The dict _process_single_topic returns: the generator's answer for the
\* unit `index` in generation pass `pass`, joined to its topic pair.
DraftResult(index, pair, pass, n) ==
    [index |-> index,
     error |-> "",
     topic_pair |-> pair,
     course_name |-> [of |-> index, pass |-> pass],
     lessons |-> LessonStubs(n)]

\* Variant: the error dict does not carry the index of its unit.
ErrorDraft_no_index(index) ==
    [index |-> -1,
     error |-> "generation failed",
     topic_pair |-> NoPair,
     course_name |-> [of |-> -1, pass |-> -1],
     lessons |-> << >>]

\* The dict parallel_workers_node appends when a future raised.
ErrorDraft(index) ==
    [index |-> index,
     error |-> "generation failed",
     topic_pair |-> NoPair,
     course_name |-> [of |-> -1, pass |-> -1],
     lessons |-> << >>]

HasError(output) == output.error # ""

\* ------------------------------------------------- Python dict / list ops
\* A dict is a sequence of [k, v] entries in insertion order.
DictSet(d, key, val) ==
    IF \E p \in 1..Len(d) : d[p].k = key
    THEN [p \in 1..Len(d) |-> IF d[p].k = key THEN [k |-> key, v |-> val] ELSE d[p]]
    ELSE Append(d, [k |-> key, v |-> val])

RECURSIVE DictByIndex(_)
DictByIndex(list) ==
    IF list = << >> THEN << >>
    ELSE LET front == SubSeq(list, 1, Len(list) - 1)
             last == list[Len(list)]
         IN DictSet(DictByIndex(front), last.index, last)

DictValues(d) == [p \in 1..Len(d) |-> d[p].v]

RECURSIVE InsertByIndex(_, _)
InsertByIndex(sorted, x) ==
    IF sorted = << >> THEN << x >>
    ELSE IF sorted[Len(sorted)].index <= x.index THEN Append(sorted, x)
    ELSE Append(InsertByIndex(SubSeq(sorted, 1, Len(sorted) - 1), x),
                sorted[Len(sorted)])

RECURSIVE SortByIndex(_)
SortByIndex(list) ==
    IF list = << >> THEN << >>
    ELSE InsertByIndex(SortByIndex(SubSeq(list, 1, Len(list) - 1)),
                       list[Len(list)])

RECURSIVE SelectSeqIn(_, _)
SelectSeqIn(list, keep) ==
    IF list = << >> THEN << >>
    ELSE LET rest == SelectSeqIn(Tail(list), keep)
         IN IF Head(list).index \in keep THEN << Head(list) >> \o rest ELSE rest

Indices(list) == { list[k].index : k \in 1..Len(list) }

\* Strictly ascending in the index field.
IsAscending(list) ==
    \A a, b \in 1..Len(list) : a < b => list[a].index < list[b].index

\* ------------------------------------------------------------------ text
\* A Python string of the segmentation stage is the sequence of its
\* paragraphs (what split('\n\n') returns, never the empty sequence); a
\* paragraph is the sequence of its pieces (what split('. ') returns, empty
\* for the empty paragraph).  A piece is a sentence of the document, a
\* literal of the code or a text of an extraction answer; suffix counts
\* the '. ' that chunk_content appended to it.
Piece(kind, id, tokens, chars) ==
    [kind |-> kind, id |-> id, tokens |-> tokens, chars |-> chars, suffix |-> 0]

EmptyText == << << >> >>

\* A literal of the code, or a one-paragraph text of an answer.
Literal(kind, id) == << << Piece(kind, id, 0, 20) >> >>

Truthy(text) == text # EmptyText

RECURSIVE ParagraphTokens(_)
ParagraphTokens(paragraph) ==
    IF paragraph = << >> THEN 0
    ELSE Head(paragraph).tokens + ParagraphTokens(Tail(paragraph))

\* count_tokens: the tokens of the pieces; separators are not counted.
RECURSIVE count_tokens(_)
count_tokens(text) ==
    IF text = << >> THEN 0
    ELSE ParagraphTokens(Head(text)) + count_tokens(Tail(text))

\* The characters of a paragraph: its pieces, the '. ' appended to them
\* and the '. ' between pieces that carry none.
RECURSIVE PiecesChars(_)
PiecesChars(paragraph) ==
    IF paragraph = << >> THEN 0
    ELSE Head(paragraph).chars + 2 * Head(paragraph).suffix
             + (IF Len(paragraph) > 1 /\ Head(paragraph).suffix = 0 THEN 2 ELSE 0)
             + PiecesChars(Tail(paragraph))

\* len(text): the paragraphs and the '\n\n' between them.
RECURSIVE StrLen(_)
StrLen(text) ==
    IF text = << >> THEN 0
    ELSE PiecesChars(Head(text)) + (IF Len(text) > 1 THEN 2 ELSE 0)
             + StrLen(Tail(text))

\* text.strip(): empty paragraphs (and their separators) at both ends go.
RECURSIVE StripLeft(_)
StripLeft(text) ==
    IF Len(text) > 1 /\ Head(text) = << >> THEN StripLeft(Tail(text)) ELSE text

RECURSIVE StripRight(_)
StripRight(text) ==
    IF Len(text) > 1 /\ text[Len(text)] = << >>
    THEN StripRight(SubSeq(text, 1, Len(text) - 1))
    ELSE text

Strip(text) == StripRight(StripLeft(text))

\* '\n\n'.join(paragraphs) for a list of paragraphs.
JoinParagraphs(paragraphs) ==
    IF paragraphs = << >> THEN EmptyText ELSE paragraphs

\* '\n\n'.join(texts) for a list of strings.
RECURSIVE JoinTexts(_)
JoinTexts(texts) ==
    IF texts = << >> THEN EmptyText
    ELSE IF Len(texts) = 1 THEN texts[1]
    ELSE texts[1] \o JoinTexts(Tail(texts))

\* text.startswith("[PARTIAL]")
StartsWithPartial(text) ==
    /\ text[1] # << >>
    /\ text[1][1].kind = "[PARTIAL] answer"

\* The empty dict {} of a failed run; a filled dict has keys = 3.
NoOutput == [keys |-> 0, introduction |-> EmptyText, main_content |-> EmptyText,
             conclusion |-> EmptyText]

\* The dict process_document returns.
Result ==
    [final_courses |-> final_courses, role |-> role, industry |-> industry,
     error |-> error, current_step |-> current_step]

NoResult ==
    [final_courses |-> << >>, role |-> "", industry |-> "",
     error |-> "", current_step |-> ""]

\* No call was made on the object yet.
NoCall == [outcome |-> "none", result |-> NoResult]

\* ------------------------------------------------------------------ Init
\* The object as its constructor leaves it: the status_callback argument is
\* stored on the object and nothing has run.
__init__(callback) ==
    /\ pc = "idle"
    /\ exception = ""
    /\ role = ""
    /\ industry = ""
    /\ topic_pairs = << >>
    /\ worker_outputs = << >>
    /\ evaluation_results = << >>
    /\ retry_count = 0
    /\ failed_indices = << >>
    /\ final_courses = << >>
    /\ current_step = ""
    /\ error = ""
    /\ pool_max = 0
    /\ pool_queue = << >>
    /\ pool_running = {}
    /\ pool_results = << >>
    /\ sent_feedback = [i \in {} |-> NoFeedback]
    /\ retries_of = [i \in {} |-> 0]
    /\ retry_edges = 0
    /\ extraction = "none"
    /\ gen_failed = {}
    /\ unordered_arrival = FALSE
    /\ failing_passes = 0
    /\ lessons_failed = {}
    /\ status_callback = callback
    /\ earlier_call = NoCall
    /\ rag_pc = "idle"
    /\ content = EmptyText
    /\ chunks = << >>
    /\ chunk_index = 0
    /\ chunk_results = << >>
    /\ structured_output = NoOutput
    /\ rag_error = ""
    /\ last_calls = << >>
    /\ lesson_calls = [p \in {} |-> 0]
    /\ judge_raised = {}

\* No task has run: the document has no course and no generation status,
\* the broker holds no message.
NoTask ==
    /\ task_pc = "idle"
    /\ gen_status = "none"
    /\ task_retry_count = 0
    /\ saved_courses = << >>
    /\ executions = 0
    /\ workflow_runs = 0
    /\ new_docs = << >>
    /\ broker = {}
    /\ running = {}
    /\ events = << >>

\* A workflow object constructed without a status callback.
Init == __init__("none") /\ NoTask

\* A workflow object constructed with a status callback, as the
\* course-generation task constructs it.
InitRegistered == __init__("registered") /\ NoTask

\* --------------------------------------------------------- process_document
\* update_status: without a callback the call does nothing; with one, the
\* callback runs on the calling thread and the call ends as the callback
\* does.  outcome is what the callback does when called: it returns, it
\* raises, or it does not come back.
SinkOutcomes == {"returns", "raises", "blocks"}

update_status(outcome) ==
    IF status_callback = "none" THEN "returns" ELSE outcome

\* The outcomes a status call of the running invocation can have.
StatusOutcomes == { update_status(o) : o \in SinkOutcomes }

\* Variant: the edge out of worker2 leads to END, past the aggregator.
PcAfter_past_aggregator(outcome, next) ==
    IF outcome = "raises" THEN "crashed"
    ELSE IF outcome = "blocks" THEN "blocked"
    ELSE IF next = "aggregator" THEN "done"
    ELSE next

\* Where the coordinating thread stands after a status call that nothing
\* guards: at `next` when the call returned, out of process_document when
\* it raised, inside the callback when it did not come back.
PcAfter(outcome, next) ==
    IF outcome = "returns" THEN next
    ELSE IF outcome = "raises" THEN "crashed"
    ELSE "blocked"

ExceptionAfter(outcome) ==
    IF outcome = "raises" THEN "CallbackError" ELSE exception

\* The initial_state dict process_document builds on every call.
initial_state ==
    [role |-> "", industry |-> "", topic_pairs |-> << >>,
     worker_outputs |-> << >>, evaluation_results |-> << >>,
     retry_count |-> 0, failed_indices |-> << >>,
     final_courses |-> << >>, current_step |-> "Starting", error |-> ""]

\* process_document stores its status_callback argument on the object,
\* builds initial_state and hands it to the compiled graph, whose entry
\* point is the orchestrator.  Nothing of an earlier run is kept on the
\* object but the callback, which the call overwrites; the history
\* variables of the model start afresh with the run.
StartRun(callback) ==
    /\ status_callback' = callback
    /\ role' = initial_state.role
    /\ industry' = initial_state.industry
    /\ topic_pairs' = initial_state.topic_pairs
    /\ worker_outputs' = initial_state.worker_outputs
    /\ evaluation_results' = initial_state.evaluation_results
    /\ retry_count' = initial_state.retry_count
    /\ failed_indices' = initial_state.failed_indices
    /\ final_courses' = initial_state.final_courses
    /\ current_step' = initial_state.current_step
    /\ error' = initial_state.error
    /\ pc' = "orchestrator"
    /\ exception' = ""
    /\ pool_max' = 0
    /\ pool_queue' = << >>
    /\ pool_running' = {}
    /\ pool_results' = << >>
    /\ sent_feedback' = [i \in {} |-> NoFeedback]
    /\ retries_of' = [i \in {} |-> 0]
    /\ retry_edges' = 0
    /\ extraction' = "none"
    /\ gen_failed' = {}
    /\ unordered_arrival' = FALSE
    /\ failing_passes' = 0
    /\ lessons_failed' = {}
    /\ last_calls' = << >>
    /\ lesson_calls' = [p \in {} |-> 0]
    /\ judge_raised' = {}

\* The first call on a new workflow object.  tasks.py calls it without a
\* status_callback argument (callback = "none"): every update_status in
\* the nodes is then a no-op.
ProcessDocument(callback) ==
    /\ pc = "idle"
    /\ StartRun(callback)
    /\ UNCHANGED << earlier_call, ragVars, celeryVars >>

\* A further call on an object whose previous call returned or raised.
ProcessDocumentAgain(callback) ==
    /\ pc \in {"done", "crashed"}
    /\ StartRun(callback)
    /\ earlier_call' = IF pc = "done"
                       THEN [outcome |-> "returned", result |-> Result]
                       ELSE [outcome |-> "raised", result |-> NoResult]
    /\ UNCHANGED << ragVars, celeryVars >>

\* ------------------------------------------------------------ orchestrator
\* ok = FALSE: one of the two structured-output calls raised, the except
\* branch records the error.  ok = TRUE: n topic pairs were extracted.
\* Either way the node returns and the unconditional edge leads to
\* parallel_workers.  s[1], s[2], s[3] are the outcomes of the status calls
\* "organizing" (before the try), "organized" (last statement of the try)
\* and "error" (in the except branch): a callback that raises in the try
\* is caught like a failed extraction, after the state fields were set.
orchestrator_node(ok, n, s) ==
    /\ pc = "orchestrator"
    /\ current_step' = "Orchestrator analyzing content"
    /\ LET organizing == update_status(s[1])
           organized == update_status(s[2])
           failed == update_status(s[3])
           entered == organizing = "returns"
           caught == entered /\ (~ok \/ organized = "raises")
           last == IF ~entered THEN organizing
                   ELSE IF caught THEN failed
                   ELSE organized
       IN /\ IF entered /\ ok
             THEN /\ role' = "role"
                  /\ industry' = "industry"
                  /\ topic_pairs' = [k \in 1..n |-> TopicPair(k - 1)]
                  /\ failed_indices' = << >>
                  /\ extraction' = "ok"
                  /\ sent_feedback' = [i \in 0..(n - 1) |-> NoFeedback]
                  /\ retries_of' = [i \in 0..(n - 1) |-> 0]
             ELSE /\ extraction' = IF entered THEN "failed" ELSE extraction
                  /\ UNCHANGED << role, industry, topic_pairs, failed_indices,
                                  sent_feedback, retries_of >>
          /\ error' = IF caught THEN "Orchestrator error" ELSE error
          /\ pc' = PcAfter(last, "parallel_workers")
          /\ exception' = ExceptionAfter(last)
    /\ UNCHANGED << worker_outputs, evaluation_results,
                    retry_count, final_courses, poolVars, retry_edges,
                    gen_failed, unordered_arrival, failing_passes,
                    lessons_failed, status_callback, earlier_call,
                    ragVars, celeryVars,
                    last_calls,
                    lesson_calls,
                    judge_raised >>

\* -------------------------------------------------- parallel_workers_node
IsRetryPass == retry_count > 0 /\ failed_indices # << >>

\* Variant: a retry pass resubmits every topic.
topics_to_process_all == [k \in 1..Len(topic_pairs) |-> k - 1]

\* Indices of topics_to_process, in submission order.
topics_to_process ==
    IF IsRetryPass
    THEN failed_indices
    ELSE [k \in 1..Len(topic_pairs) |-> k - 1]

\* The feedback lookup of the submit loop: the feedback of the first
\* stored verdict that carries this index and did not pass, else None.
FeedbackFor(idx) ==
    IF retry_count > 0
       /\ \E p \in 1..Len(evaluation_results) :
              evaluation_results[p].index = idx /\ ~evaluation_results[p].passed
    THEN LET p == CHOOSE q \in 1..Len(evaluation_results) :
                    /\ evaluation_results[q].index = idx
                    /\ ~evaluation_results[q].passed
                    /\ \A r \in 1..(q - 1) :
                          ~(evaluation_results[r].index = idx
                            /\ ~evaluation_results[r].passed)
         IN evaluation_results[p].feedback
    ELSE NoFeedback

\* Entry of the node up to the end of the submit loop.  ThreadPoolExecutor
\* rejects max_workers = 0 with ValueError, which nothing catches.  s is
\* the outcome of the status call made before the pool is created.
ParallelWorkersSubmit(s) ==
    /\ pc = "parallel_workers"
    /\ current_step' = "Running parallel workers"
    /\ LET todo == topics_to_process
           workers == Min(GenPoolCap, Len(todo))
           announced == update_status(s)
       IN IF announced # "returns"
          THEN /\ pc' = PcAfter(announced, "pw_pool")
               /\ exception' = ExceptionAfter(announced)
               /\ UNCHANGED << poolVars, sent_feedback, retries_of, gen_failed >>
          ELSE IF workers <= 0
          THEN /\ pc' = "crashed"
               /\ exception' = "ValueError"
               /\ UNCHANGED << poolVars, sent_feedback, retries_of, gen_failed >>
          ELSE /\ pc' = "pw_pool"
               /\ gen_failed' = {}
               /\ pool_max' = workers
               /\ pool_queue' = SubSeq(todo, workers + 1, Len(todo))
               /\ pool_running' = { todo[k] : k \in 1..workers }
               /\ pool_results' = << >>
               /\ sent_feedback' = [i \in DOMAIN sent_feedback |->
                                      IF i \in Range(todo) THEN FeedbackFor(i)
                                      ELSE sent_feedback[i]]
               /\ retries_of' = [i \in DOMAIN retries_of |->
                                      IF IsRetryPass /\ i \in Range(todo)
                                      THEN retries_of[i] + 1
                                      ELSE retries_of[i]]
               /\ UNCHANGED exception
    /\ UNCHANGED << role, industry, topic_pairs, worker_outputs,
                    evaluation_results, retry_count, failed_indices,
                    final_courses, error, retry_edges, extraction,
                    unordered_arrival, failing_passes,
                    lessons_failed,
                    status_callback,
                    earlier_call,
                    ragVars, celeryVars,
                    last_calls,
                    lesson_calls,
                    judge_raised >>

\* Variant: when a work item finishes, every queued item is started.
RunningAfter_unbounded(idx) == (pool_running \ {idx}) \cup Range(pool_queue)

\* The thread that finished the work item idx takes the oldest queued one.
RunningAfter(idx) ==
    IF pool_queue = << >> THEN pool_running \ {idx}
    ELSE (pool_running \ {idx}) \cup {Head(pool_queue)}

QueueAfter == IF pool_queue = << >> THEN << >> ELSE Tail(pool_queue)

\* _process_single_topic_with_retry: calls[a] tells whether the generator
\* call of attempt a (1-based) returns; n is the number of lessons of a
\* returned answer.  made is the outcomes of the calls the loop made.
RECURSIVE topic_attempt(_, _, _, _, _)
topic_attempt(attempt, calls, index, pair, n) ==
    IF calls[attempt + 1]
    THEN [raised |-> FALSE, attempts |-> attempt + 1,
          made |-> SubSeq(calls, 1, attempt + 1),
          result |-> DraftResult(index, pair, retry_count, n)]
    ELSE IF attempt = max_retries - 1
    THEN [raised |-> TRUE, attempts |-> attempt + 1,
          made |-> SubSeq(calls, 1, attempt + 1),
          result |-> ErrorDraft(index)]
    ELSE topic_attempt(attempt + 1, calls, index, pair, n)

\* Variant: the call is made once and its exception is passed on.
_process_single_topic_once(calls, index, pair, n) ==
    IF calls[1]
    THEN [raised |-> FALSE, attempts |-> 1, made |-> SubSeq(calls, 1, 1),
          result |-> DraftResult(index, pair, retry_count, n)]
    ELSE [raised |-> TRUE, attempts |-> 1, made |-> SubSeq(calls, 1, 1),
          result |-> ErrorDraft(index)]

_process_single_topic_with_retry(calls, index, pair, n) ==
    topic_attempt(0, calls, index, pair, n)

\* What the as_completed loop appends for a finished future.
CollectedDraft(r, idx) == IF r.raised THEN ErrorDraft(idx) ELSE r.result

\* A generation work item finishes and the as_completed loop collects it.
GenerationCompletes(idx, calls, n) ==
    /\ pc = "pw_pool"
    /\ idx \in pool_running
    /\ LET r == _process_single_topic_with_retry(calls, idx, topic_pairs[idx + 1], n)
       IN /\ pool_results' = Append(pool_results, CollectedDraft(r, idx))
          /\ gen_failed' = IF r.raised THEN gen_failed \cup {idx} ELSE gen_failed
          /\ last_calls' = r.made
    /\ pool_running' = RunningAfter(idx)
    /\ pool_queue' = QueueAfter
    /\ UNCHANGED << pc, exception, stateVars, pool_max, sent_feedback,
                    retries_of, retry_edges, extraction, unordered_arrival,
                    failing_passes,
                    lessons_failed,
                    status_callback,
                    earlier_call,
                    ragVars, celeryVars,
                    lesson_calls,
                    judge_raised >>

\* The list parallel_workers_node stores once the pool has drained.
RECURSIVE MergeInto(_, _)
MergeInto(existing, outputs) ==
    IF outputs = << >> THEN existing
    ELSE MergeInto(DictSet(existing, Head(outputs).index, Head(outputs)),
                   Tail(outputs))

\* Variant: a retry pass stores only what it regenerated.
StoredOutputs_retried_only(collected) == SortByIndex(collected)

\* Variant: the lists are stored in arrival order.
StoredOutputs_unsorted(collected) ==
    IF retry_count > 0
    THEN DictValues(MergeInto(DictByIndex(worker_outputs), collected))
    ELSE collected

\* Variant: a retry pass keeps the drafts it had and drops what it
\* regenerated.
StoredOutputs_keep_old(collected) ==
    IF retry_count > 0
    THEN SortByIndex(worker_outputs)
    ELSE SortByIndex(collected)

StoredOutputs(collected) ==
    IF retry_count > 0
    THEN SortByIndex(DictValues(MergeInto(DictByIndex(worker_outputs), collected)))
    ELSE SortByIndex(collected)

\* Variant: the node goes on as soon as one result has arrived.
PoolDrained_first_result == pool_results # << >>

\* The as_completed loop has seen every submitted future and the `with`
\* block of the executor has ended.
PoolDrained == pool_queue = << >> /\ pool_running = {}

ParallelWorkersStore ==
    /\ pc = "pw_pool"
    /\ PoolDrained
    /\ worker_outputs' = StoredOutputs(pool_results)
    /\ pool_max' = 0
    /\ pool_results' = << >>
    /\ sent_feedback' = [i \in DOMAIN sent_feedback |-> NoFeedback]
    /\ unordered_arrival' = ~IsAscending(pool_results)
    /\ last_calls' = << >>
    /\ pc' = "evaluator"
    /\ UNCHANGED << exception, role, industry, topic_pairs, evaluation_results,
                    retry_count, failed_indices, final_courses, current_step,
                    error, pool_queue, pool_running, retries_of, retry_edges,
                    extraction, gen_failed, failing_passes,
                    lessons_failed,
                    status_callback,
                    earlier_call,
                    ragVars, celeryVars,
                    lesson_calls,
                    judge_raised >>

\* ----------------------------------------------------------- evaluator_node
outputs_to_evaluate ==
    IF retry_count > 0 /\ failed_indices # << >>
    THEN SelectSeqIn(worker_outputs, Range(failed_indices))
    ELSE worker_outputs

\* Variant: a judgment call that raises counts as a pass.
eval_dict_of_lenient(output, judgment) ==
    IF judgment = "fail"
    THEN [index |-> output.index, passed |-> FALSE,
          feedback |-> [src |-> "judge", of |-> output.index,
                        pass |-> output.course_name.pass]]
    ELSE [index |-> output.index, passed |-> TRUE, feedback |-> NoFeedback]

\* The verdict dict built from the judgment call on one draft.  judgment is
\* "pass" or "fail" (the structured answer) or "raise" (the call failed).
JudgeFeedback(output) ==
    [src |-> "judge", of |-> output.index, pass |-> output.course_name.pass]

EvalErrorFeedback(output) ==
    [src |-> "evaluation error", of |-> output.index, pass |-> output.course_name.pass]

eval_dict_of(output, judgment) ==
    IF judgment = "pass"
    THEN [index |-> output.index, passed |-> TRUE, feedback |-> NoFeedback]
    ELSE IF judgment = "fail"
    THEN [index |-> output.index, passed |-> FALSE, feedback |-> JudgeFeedback(output)]
    ELSE [index |-> output.index, passed |-> FALSE, feedback |-> EvalErrorFeedback(output)]

\* The for loop over outputs_to_evaluate.  acc carries the locals of the
\* node: existing_evaluations, failed_indices, and eval_dict with a flag
\* telling whether the name is bound yet.  The error branch binds
\* eval_result, not eval_dict, so the store after the branch reads whatever
\* eval_dict the previous iteration left, or raises UnboundLocalError when
\* there was none.
RECURSIVE eval_loop(_, _, _)
eval_loop(outputs, judgments, acc) ==
    IF outputs = << >> \/ acc.raised THEN acc
    ELSE LET output == Head(outputs)
             afterBranch ==
                 IF HasError(output)
                 THEN [acc EXCEPT !.failed = Append(@, output.index)]
                 ELSE LET d == eval_dict_of(output, judgments[output.index])
                      IN [acc EXCEPT !.eval_dict = d,
                                     !.bound = TRUE,
                                     !.failed = IF d.passed THEN @
                                                ELSE Append(@, output.index),
                                     !.judge_raised =
                                         IF judgments[output.index] = "raise"
                                         THEN @ \cup {output.index} ELSE @]
             afterStore ==
                 IF afterBranch.bound
                 THEN [afterBranch EXCEPT
                          !.existing = DictSet(@, output.index, afterBranch.eval_dict)]
                 ELSE [afterBranch EXCEPT !.raised = TRUE]
         IN eval_loop(Tail(outputs), judgments, afterStore)

evaluate(judgments) ==
    eval_loop(outputs_to_evaluate, judgments,
              [existing |-> DictByIndex(IF retry_count > 0 THEN evaluation_results
                                        ELSE << >>),
               failed |-> << >>,
               eval_dict |-> [index |-> -1, passed |-> FALSE, feedback |-> NoFeedback],
               bound |-> FALSE,
               judge_raised |-> {},
               raised |-> FALSE])

\* Variant: the counter is incremented by every evaluation pass.
next_retry_count_always(failed) == retry_count + 1

\* Variant: the counter grows by the number of failed units.
next_retry_count_by_failed(failed) == retry_count + Len(failed)

\* The retry counter after a pass whose failed list is `failed`.
next_retry_count(failed) ==
    IF failed # << >> THEN retry_count + 1 ELSE retry_count

evaluator_node(judgments, s) ==
    /\ pc = "evaluator"
    /\ current_step' = "Evaluating worker outputs"
    /\ LET r == evaluate(judgments)
           evaluating == update_status(s[1])
           concluded == update_status(s[2])
       IN IF evaluating # "returns"
          THEN /\ pc' = PcAfter(evaluating, "should_retry")
               /\ exception' = ExceptionAfter(evaluating)
               /\ UNCHANGED << evaluation_results, failed_indices, retry_count,
                               failing_passes, judge_raised >>
          ELSE IF r.raised
          THEN /\ pc' = "crashed"
               /\ exception' = "UnboundLocalError"
               /\ judge_raised' = r.judge_raised
               /\ UNCHANGED << evaluation_results, failed_indices, retry_count,
                               failing_passes >>
          ELSE /\ evaluation_results' = DictValues(r.existing)
               /\ failed_indices' = r.failed
               /\ judge_raised' = r.judge_raised
               /\ retry_count' = next_retry_count(r.failed)
               /\ failing_passes' = IF r.failed # << >> THEN failing_passes + 1
                                    ELSE failing_passes
               /\ pc' = PcAfter(concluded, "should_retry")
               /\ exception' = ExceptionAfter(concluded)
    /\ UNCHANGED << role, industry, topic_pairs, worker_outputs, final_courses,
                    error, poolVars, sent_feedback, retries_of,
                    retry_edges, extraction, gen_failed, unordered_arrival,
                    lessons_failed,
                    status_callback,
                    earlier_call,
                    ragVars, celeryVars,
                    last_calls,
                    lesson_calls >>

\* ------------------------------------------------------------- should_retry
\* Variant: the retry bound is two too high.
should_retry_loose ==
    IF Len(failed_indices) > 0 /\ retry_count < MaxEvalRetries + 2
    THEN "retry"
    ELSE "continue"

\* Variant: the bound on retry_count is inclusive.
should_retry_inclusive ==
    IF Len(failed_indices) > 0 /\ retry_count <= MaxEvalRetries
    THEN "retry"
    ELSE "continue"

should_retry ==
    IF Len(failed_indices) > 0 /\ retry_count < MaxEvalRetries
    THEN "retry"
    ELSE "continue"

\* The conditional edge out of the evaluator.
ConditionalEdge ==
    /\ pc = "should_retry"
    /\ IF should_retry = "retry"
       THEN /\ pc' = "parallel_workers"
            /\ retry_edges' = retry_edges + 1
       ELSE /\ pc' = "worker2"
            /\ UNCHANGED retry_edges
    /\ UNCHANGED << exception, stateVars, poolVars, sent_feedback,
                    retries_of, extraction, gen_failed, unordered_arrival,
                    failing_passes,
                    lessons_failed,
                    status_callback,
                    earlier_call,
                    ragVars, celeryVars,
                    last_calls,
                    lesson_calls,
                    judge_raised >>

\* -------------------------------------------------------------- worker2_node
RECURSIVE passed_of(_)
passed_of(outputs) ==
    IF outputs = << >> THEN << >>
    ELSE LET rest == passed_of(Tail(outputs))
             output == Head(outputs)
         IN IF output.index \notin Range(failed_indices) /\ ~HasError(output)
            THEN << output >> \o rest
            ELSE rest

\* Variant: only the error marker excludes a draft from expansion.
RECURSIVE without_error(_)
without_error(outputs) ==
    IF outputs = << >> THEN << >>
    ELSE LET rest == without_error(Tail(outputs))
         IN IF ~HasError(Head(outputs)) THEN << Head(outputs) >> \o rest ELSE rest

passed_courses_ignoring_failed == without_error(worker_outputs)

\* Variant: every stored draft is expanded.
passed_courses_unfiltered == worker_outputs

passed_courses == passed_of(worker_outputs)

\* Entry of the node up to the end of the submit loop.
WorkerTwoSubmit(s) ==
    /\ pc = "worker2"
    /\ current_step' = "Generating full lesson content"
    /\ LET todo == passed_courses
           workers == Min(ExpPoolCap, Len(todo))
           announced == update_status(s)
       IN IF announced # "returns"
          THEN /\ pc' = PcAfter(announced, "w2_pool")
               /\ exception' = ExceptionAfter(announced)
               /\ UNCHANGED poolVars
          ELSE IF workers <= 0
          THEN /\ pc' = "crashed"
               /\ exception' = "ValueError"
               /\ UNCHANGED poolVars
          ELSE /\ pc' = "w2_pool"
               /\ pool_max' = workers
               /\ pool_queue' = [k \in 1..(Len(todo) - workers) |->
                                   todo[workers + k].index]
               /\ pool_running' = { todo[k].index : k \in 1..workers }
               /\ pool_results' = << >>
               /\ UNCHANGED exception
    /\ UNCHANGED << role, industry, topic_pairs, worker_outputs,
                    evaluation_results, retry_count, failed_indices,
                    final_courses, error, sent_feedback, retries_of,
                    retry_edges, extraction, gen_failed, unordered_arrival,
                    failing_passes,
                    lessons_failed,
                    status_callback,
                    earlier_call,
                    ragVars, celeryVars,
                    last_calls,
                    lesson_calls,
                    judge_raised >>

OutputOf(idx) ==
    worker_outputs[CHOOSE k \in 1..Len(worker_outputs) : worker_outputs[k].index = idx]

\* _generate_full_lessons: one call per lesson stub; a call that raises is
\* caught inside the loop and the stub is kept with empty detail lists, so
\* the function itself never raises.  answers[k] tells whether the call for
\* the k-th lesson returns.
\* The FullLesson answer as a dict; the answer repeats the number, title
\* and introduction its prompt names.
FullLesson(stub) ==
    [lesson_number |-> stub.lesson_number,
     lesson_title |-> stub.lesson_title,
     lesson_introduction |-> stub.lesson_introduction,
     skill_aims |-> << "skill aim" >>,
     language_learning_aims |-> << "language aim" >>,
     lesson_summary |-> << "summary point" >>]

\* Variant: a lesson whose call failed is replaced by an empty placeholder.
DegradedLesson_placeholder(stub) ==
    [lesson_number |-> -1,
     lesson_title |-> -1,
     lesson_introduction |-> -1,
     skill_aims |-> << >>,
     language_learning_aims |-> << >>,
     lesson_summary |-> << >>]

\* {**lesson, "skill_aims": [], "language_learning_aims": [],
\*  "lesson_summary": []}
DegradedLesson(stub) ==
    [lesson_number |-> stub.lesson_number,
     lesson_title |-> stub.lesson_title,
     lesson_introduction |-> stub.lesson_introduction,
     skill_aims |-> << >>,
     language_learning_aims |-> << >>,
     lesson_summary |-> << >>]

\* Variant: nothing catches a failed lesson call, the function raises.
_generate_full_lessons_uncaught(lessons, answers) ==
    [raised |-> \E k \in 1..Len(lessons) : ~answers[k],
     lessons |-> [k \in 1..Len(lessons) |-> FullLesson(lessons[k])]]

_generate_full_lessons(lessons, answers) ==
    [raised |-> FALSE,
     lessons |-> [k \in 1..Len(lessons) |->
                    IF answers[k] THEN FullLesson(lessons[k])
                    ELSE DegradedLesson(lessons[k])]]

\* _generate_full_lessons_with_retry: repeats the call while it raises, up
\* to max_retries attempts, and re-raises the last exception.  answers[a][k]
\* tells whether the call for the k-th lesson returns in attempt a
\* (1-based); attempts is the number of times _generate_full_lessons ran,
\* each run calling the generator once for every lesson of the unit.
RECURSIVE lessons_attempt(_, _, _)
lessons_attempt(attempt, lessons, answers) ==
    LET r == _generate_full_lessons(lessons, answers[attempt + 1])
    IN IF ~r.raised \/ attempt = max_retries - 1
       THEN [raised |-> r.raised, lessons |-> r.lessons, attempts |-> attempt + 1]
       ELSE lessons_attempt(attempt + 1, lessons, answers)

_generate_full_lessons_with_retry(lessons, answers) ==
    lessons_attempt(0, lessons, answers)

ExpandedCourse(output, full_lessons) ==
    [course_name |-> output.course_name,
     topic_pair |-> output.topic_pair,
     lessons |-> full_lessons]

\* An expansion work item finishes and the as_completed loop collects it:
\* a returned lesson list is appended as a course, a raised exception is
\* recorded in state["error"] and nothing is appended.
ExpansionCompletes(idx, answers) ==
    /\ pc = "w2_pool"
    /\ idx \in pool_running
    /\ LET output == OutputOf(idx)
           r == _generate_full_lessons_with_retry(output.lessons, answers)
           positions == 1..Len(output.lessons)
       IN /\ IF r.raised
             THEN /\ error' = "Worker 2 error"
                  /\ UNCHANGED pool_results
             ELSE /\ pool_results' = Append(pool_results,
                                            ExpandedCourse(output, r.lessons))
                  /\ UNCHANGED error
          /\ lessons_failed' = lessons_failed \cup
                 { << idx, k >> : k \in {p \in positions : ~answers[r.attempts][p]} }
          /\ lesson_calls' = [i \in DOMAIN lesson_calls \cup {idx} |->
                                 IF i = idx THEN r.attempts ELSE lesson_calls[i]]
    /\ pool_running' = RunningAfter(idx)
    /\ pool_queue' = QueueAfter
    /\ UNCHANGED << pc, exception, role, industry, topic_pairs, worker_outputs,
                    evaluation_results, retry_count, failed_indices,
                    final_courses, current_step, pool_max, sent_feedback,
                    retries_of, retry_edges, extraction, gen_failed, unordered_arrival,
                    failing_passes,
                    status_callback,
                    earlier_call,
                    ragVars, celeryVars,
                    last_calls,
                    judge_raised >>

WorkerTwoStore(s) ==
    /\ pc = "w2_pool"
    /\ PoolDrained
    /\ final_courses' = pool_results
    /\ pool_max' = 0
    /\ pool_results' = << >>
    /\ pc' = PcAfter(update_status(s), "aggregator")
    /\ exception' = ExceptionAfter(update_status(s))
    /\ UNCHANGED << role, industry, topic_pairs, worker_outputs,
                    evaluation_results, retry_count, failed_indices,
                    current_step, error, pool_queue, pool_running,
                    sent_feedback, retries_of, retry_edges,
                    extraction, gen_failed, unordered_arrival,
                    failing_passes,
                    lessons_failed,
                    status_callback,
                    earlier_call,
                    ragVars, celeryVars,
                    last_calls,
                    lesson_calls,
                    judge_raised >>

\* ----------------------------------------------------------- aggregator_node
\* Variant: the node also empties failed_indices.
aggregator_node_clearing(s) ==
    /\ pc = "aggregator"
    /\ current_step' = "Aggregating final output"
    /\ failed_indices' = << >>
    /\ LET aggregating == update_status(s[1])
           aggregated == update_status(s[2])
           last == IF aggregating # "returns" THEN aggregating ELSE aggregated
       IN /\ pc' = PcAfter(last, "done")
          /\ exception' = ExceptionAfter(last)
    /\ UNCHANGED << role, industry, topic_pairs, worker_outputs,
                    evaluation_results, retry_count,
                    final_courses, error, poolVars, sent_feedback,
                    retries_of, retry_edges, extraction, gen_failed, unordered_arrival,
                    failing_passes,
                    lessons_failed,
                    status_callback,
                    earlier_call,
                    ragVars, celeryVars,
                    last_calls,
                    lesson_calls,
                    judge_raised >>

\* The node only relabels current_step; the edge to END follows and
\* process_document returns the five result fields of the state.
aggregator_node(s) ==
    /\ pc = "aggregator"
    /\ current_step' = "Aggregating final output"
    /\ LET aggregating == update_status(s[1])
           aggregated == update_status(s[2])
           last == IF aggregating # "returns" THEN aggregating ELSE aggregated
       IN /\ pc' = PcAfter(last, "done")
          /\ exception' = ExceptionAfter(last)
    /\ UNCHANGED << role, industry, topic_pairs, worker_outputs,
                    evaluation_results, retry_count, failed_indices,
                    final_courses, error, poolVars, sent_feedback,
                    retries_of, retry_edges, extraction, gen_failed, unordered_arrival,
                    failing_passes,
                    lessons_failed,
                    status_callback,
                    earlier_call,
                    ragVars, celeryVars,
                    last_calls,
                    lesson_calls,
                    judge_raised >>

\* --------------------------------------------------------------------- Next
Judgments == {"pass", "fail", "raise"}

\* The indices whose draft the evaluator sends to the judgment call.
JudgedIndices ==
    { outputs_to_evaluate[k].index : k \in
        { j \in 1..Len(outputs_to_evaluate) : ~HasError(outputs_to_evaluate[j]) } }

\* The answers of the lesson calls of one expansion work item, attempt by
\* attempt: the calls that fail do so in the first attempt only (m = 1)
\* or in every attempt (m = max_retries).
LessonAnswers ==
    { [a \in 1..max_retries |->
          [k \in 1..NumLessons |-> IF a <= m THEN first[k] ELSE TRUE]] :
          first \in [1..NumLessons -> BOOLEAN], m \in {1, max_retries} }

\* The steps of a run of the graph.
RunStep ==
    \/ \E ok \in BOOLEAN, n \in 0..MaxTopics, s \in [1..3 -> StatusOutcomes] :
          orchestrator_node(ok, n, s)
    \/ \E s \in StatusOutcomes : ParallelWorkersSubmit(s)
    \/ \E idx \in pool_running, calls \in [1..max_retries -> BOOLEAN] :
          GenerationCompletes(idx, calls, NumLessons)
    \/ ParallelWorkersStore
    \/ \E judgments \in [JudgedIndices -> Judgments], s \in [1..2 -> StatusOutcomes] :
          evaluator_node(judgments, s)
    \/ ConditionalEdge
    \/ \E s \in StatusOutcomes : WorkerTwoSubmit(s)
    \/ \E idx \in pool_running, answers \in LessonAnswers :
          ExpansionCompletes(idx, answers)
    \/ \E s \in StatusOutcomes : WorkerTwoStore(s)
    \/ \E s \in [1..2 -> StatusOutcomes] : aggregator_node(s)

\* One call of process_document as tasks.py makes it, on a new object.
Next ==
    \/ ProcessDocument("none")
    \/ RunStep

Spec == Init /\ [][Next]_vars

\* process_document called with or without a status callback.
Callbacks == {"none", "sink"}

NextSink ==
    \/ \E callback \in Callbacks : ProcessDocument(callback)
    \/ RunStep

SpecSink == Init /\ [][NextSink]_vars

\* The course-generation task: the callback goes to the constructor and
\* process_document is called without a status_callback argument.
SpecRegistered == InitRegistered /\ [][Next]_vars

\* process_document called again and again on the same workflow object.
NextRepeat ==
    \/ ProcessDocument("none")
    \/ ProcessDocumentAgain("none")
    \/ RunStep

SpecRepeat == Init /\ [][NextRepeat]_vars

\* Runs in which every model call succeeds, on documents of up to
\* MaxPoolUnits topics: both thread pools are loaded below, at and above
\* their caps.  The judge may fail the first draft of unit 0, which a
\* retry pass of one unit then regenerates.
AllReturn == [k \in 1..3 |-> "returns"]

PoolJudgments ==
    { [i \in JudgedIndices |-> IF i = 0 /\ retry_count = 0 THEN j ELSE "pass"] :
          j \in {"pass", "fail"} }

NextPool ==
    \/ ProcessDocument("none")
    \/ \E n \in 1..MaxPoolUnits : orchestrator_node(TRUE, n, AllReturn)
    \/ ParallelWorkersSubmit("returns")
    \/ \E idx \in pool_running :
          GenerationCompletes(idx, [a \in 1..max_retries |-> TRUE], NumLessons)
    \/ ParallelWorkersStore
    \/ \E judgments \in PoolJudgments : evaluator_node(judgments, AllReturn)
    \/ ConditionalEdge
    \/ WorkerTwoSubmit("returns")
    \/ \E idx \in pool_running :
          ExpansionCompletes(idx, [a \in 1..max_retries |->
                                      [k \in 1..NumLessons |-> TRUE]])
    \/ WorkerTwoStore("returns")
    \/ aggregator_node(AllReturn)

SpecPool == Init /\ [][NextPool]_vars

\* ===================================================================
\* generate_courses_for_document_safe (tasks.py): the course-generation task
\* ===================================================================
max_retry_attempts == 3

\* CourseGenerationWorkflow(status_callback=callback): a new object.
Construct(callback) ==
    /\ pc' = "idle"
    /\ status_callback' = callback
    /\ earlier_call' = NoCall
    /\ exception' = ""
    /\ role' = ""
    /\ industry' = ""
    /\ topic_pairs' = << >>
    /\ worker_outputs' = << >>
    /\ evaluation_results' = << >>
    /\ retry_count' = 0
    /\ failed_indices' = << >>
    /\ final_courses' = << >>
    /\ current_step' = ""
    /\ error' = ""
    /\ pool_max' = 0
    /\ pool_queue' = << >>
    /\ pool_running' = {}
    /\ pool_results' = << >>
    /\ sent_feedback' = [i \in {} |-> NoFeedback]
    /\ retries_of' = [i \in {} |-> 0]
    /\ retry_edges' = 0
    /\ extraction' = "none"
    /\ gen_failed' = {}
    /\ unordered_arrival' = FALSE
    /\ failing_passes' = 0
    /\ lessons_failed' = {}
    /\ last_calls' = << >>
    /\ lesson_calls' = [p \in {} |-> 0]
    /\ judge_raised' = {}

\* The task is executed (first by the pipeline's chain, again by whoever
\* runs it for the same document).  It returns at once when the document
\* has courses and raises when it has no structured content; otherwise it
\* creates the generation status with status 'processing' and enters the
\* retry loop with retry_count = 0.
generate_courses_for_document_safe(has_structured_content) ==
    /\ task_pc \in {"idle", "returned", "raised"}
    /\ executions < MaxExecutions
    /\ executions' = executions + 1
    /\ IF saved_courses # << >>
       THEN /\ task_pc' = "returned"
            /\ gen_status' = "none"
       ELSE IF ~has_structured_content
       THEN /\ task_pc' = "raised"
            /\ gen_status' = "none"
       ELSE /\ task_pc' = "loop"
            /\ gen_status' = "processing"
    /\ task_retry_count' = 0
    /\ UNCHANGED << saved_courses, workflow_runs, workflowVars, ragVars,
                    pipelineVars >>

\* The head of `while retry_count < max_retry_attempts`: the body starts by
\* constructing a workflow with the status callback; when the condition
\* fails the function ends without a return statement.
WhileLoop ==
    /\ task_pc = "loop"
    /\ IF task_retry_count < max_retry_attempts
       THEN /\ Construct("registered")
            /\ workflow_runs' = workflow_runs + 1
            /\ task_pc' = "workflow"
       ELSE /\ task_pc' = "returned"
            /\ UNCHANGED << workflow_runs, workflowVars >>
    /\ UNCHANGED << gen_status, task_retry_count, saved_courses, executions,
                    ragVars, pipelineVars >>

\* Variant: the except branch counts a retry and loops on every attempt.
ExceptBranch_always_retry ==
    /\ task_retry_count' = task_retry_count + 1
    /\ task_pc' = "loop"
    /\ UNCHANGED gen_status

\* The except branch of the loop body: the last attempt records status
\* 'error' and raises, an earlier one counts a retry and loops.
ExceptBranch ==
    IF task_retry_count >= max_retry_attempts - 1
    THEN /\ gen_status' = "error"
         /\ task_pc' = "raised"
         /\ UNCHANGED task_retry_count
    ELSE /\ task_retry_count' = task_retry_count + 1
         /\ task_pc' = "loop"
         /\ UNCHANGED gen_status

\* The GeneratedCourse rows the loop over result['final_courses'] created
\* before it ended: all of them, or the first `created` when a write raised.
SavedRows(created) ==
    [k \in 1..created |-> [course |-> final_courses[k], run |-> workflow_runs]]

\* process_document returned.  A result with an error is retried when the
\* error reads as a rate limit and raised otherwise; a result without one
\* is saved course by course, each write committed on its own: the loop
\* may raise with `created` rows written (raised = TRUE) or end, and then
\* the status becomes 'completed' and the task returns.
WorkflowReturned(rate_limit, created, raised) ==
    /\ task_pc = "workflow"
    /\ pc = "done"
    /\ IF Result.error # ""
       THEN /\ IF rate_limit
               THEN /\ task_retry_count' = task_retry_count + 1
                    /\ task_pc' = "loop"
                    /\ UNCHANGED gen_status
               ELSE ExceptBranch
            /\ UNCHANGED saved_courses
       ELSE /\ created \in 0..Len(final_courses)
            /\ ~raised => created = Len(final_courses)
            /\ saved_courses' = saved_courses \o SavedRows(created)
            /\ IF raised
               THEN ExceptBranch
               ELSE /\ gen_status' = "completed"
                    /\ task_pc' = "returned"
                    /\ UNCHANGED task_retry_count
    /\ UNCHANGED << executions, workflow_runs, workflowVars, ragVars,
                    pipelineVars >>

\* process_document raised: the except branch of the loop body.
WorkflowRaised ==
    /\ task_pc = "workflow"
    /\ pc = "crashed"
    /\ ExceptBranch
    /\ UNCHANGED << saved_courses, executions, workflow_runs, workflowVars,
                    ragVars, pipelineVars >>

\* The workflow run inside the task, on documents of at most one topic:
\* process_document is called without a status_callback argument.
TaskWorkflowStep ==
    /\ task_pc = "workflow"
    /\ \/ ProcessDocument("none")
       \/ \E ok \in BOOLEAN, n \in 0..1 : orchestrator_node(ok, n, AllReturn)
       \/ ParallelWorkersSubmit("returns")
       \/ \E idx \in pool_running, calls \in [1..max_retries -> BOOLEAN] :
             GenerationCompletes(idx, calls, NumLessons)
       \/ ParallelWorkersStore
       \/ \E judgments \in [JudgedIndices -> Judgments] :
             evaluator_node(judgments, AllReturn)
       \/ ConditionalEdge
       \/ WorkerTwoSubmit("returns")
       \/ \E idx \in pool_running, answers \in LessonAnswers :
             ExpansionCompletes(idx, answers)
       \/ WorkerTwoStore("returns")
       \/ aggregator_node(AllReturn)

NextTask ==
    \/ \E has_structured_content \in BOOLEAN :
          generate_courses_for_document_safe(has_structured_content)
    \/ WhileLoop
    \/ TaskWorkflowStep
    \/ \E rate_limit \in BOOLEAN, created \in 0..1, raised \in BOOLEAN :
          WorkflowReturned(rate_limit, created, raised)
    \/ WorkflowRaised

SpecTask == Init /\ [][NextTask]_vars

\* ===================================================================
\* The document pipeline (tasks.py): check_for_new_docs and the chained tasks
\* ===================================================================
pipeline_max_retries == 3

DocIds == 1..MaxDocs

\* The lists of new documents a check can find: distinct ids, in any order.
DocLists ==
    { docs \in UNION { [1..n -> DocIds] : n \in 0..MaxDocs } :
        \A a, b \in 1..Len(docs) : a # b => docs[a] # docs[b] }

\* A task message: the task, the document it is for (0 for none), the
\* remaining_doc_ids that travel with the chain, and request.retries.
Message(task, doc, rest, retries) ==
    [task |-> task, doc |-> doc, rest |-> rest, retries |-> retries]

\* The three tasks of a document's chain, in chain order.
ChainSteps == << "process_document_with_rag_safe",
                 "generate_courses_for_document_safe",
                 "export_and_upload_to_supabase" >>

Event(at, m, ok) == [at |-> at, task |-> m.task, doc |-> m.doc, ok |-> ok]

\* check_for_new_docs: the new documents are saved and the pipeline of
\* the first one is queued with the others as remaining_doc_ids.
check_for_new_docs(docs) ==
    /\ events = << >>
    /\ new_docs' = docs
    /\ broker' = IF docs # << >>
                 THEN { Message("process_document_pipeline", docs[1], Tail(docs), 0) }
                 ELSE {}
    /\ events' = << [at |-> "end", task |-> "check_for_new_docs", doc |-> 0,
                     ok |-> TRUE] >>
    /\ UNCHANGED << running, taskVars, workflowVars, ragVars >>

\* A worker takes a message from the broker and starts the task.
StartTask(m) ==
    /\ m \in broker
    /\ broker' = broker \ {m}
    /\ running' = running \cup {m}
    /\ events' = Append(events, Event("start", m, TRUE))
    /\ UNCHANGED << new_docs, taskVars, workflowVars, ragVars >>

\* Variant: the chain is applied with all its tasks at once instead of one
\* after the other.
ChainAfter_at_once(m) ==
    IF m.task = "process_document_pipeline"
    THEN { Message(ChainSteps[k], m.doc, m.rest, 0) : k \in 1..3 }
           \cup { IF m.rest # << >>
                  THEN Message("process_next_document_in_pipeline", 0, m.rest, 0)
                  ELSE Message("complete_document_pipeline", 0, << >>, 0) }
    ELSE IF m.task = "process_next_document_in_pipeline"
    THEN { Message("process_document_pipeline", m.rest[1], Tail(m.rest), 0) }
    ELSE {}

\* What a task that ended without raising leaves at the broker:
\* process_document_pipeline applies the chain, whose first task is queued;
\* a task of the chain is followed by the next one, the export by
\* process_next_document_in_pipeline when documents remain and by
\* complete_document_pipeline otherwise; process_next_document_in_pipeline
\* queues the pipeline of the first remaining document.
ChainAfter(m) ==
    IF m.task = "process_document_pipeline"
    THEN { Message(ChainSteps[1], m.doc, m.rest, 0) }
    ELSE IF m.task = ChainSteps[1]
    THEN { Message(ChainSteps[2], m.doc, m.rest, 0) }
    ELSE IF m.task = ChainSteps[2]
    THEN { Message(ChainSteps[3], m.doc, m.rest, 0) }
    ELSE IF m.task = ChainSteps[3]
    THEN IF m.rest # << >>
         THEN { Message("process_next_document_in_pipeline", 0, m.rest, 0) }
         ELSE { Message("complete_document_pipeline", 0, << >>, 0) }
    ELSE IF m.task = "process_next_document_in_pipeline"
    THEN IF m.rest # << >>
         THEN { Message("process_document_pipeline", m.rest[1], Tail(m.rest), 0) }
         ELSE { Message("complete_document_pipeline", 0, << >>, 0) }
    ELSE {}

\* The task ends without raising.
TaskSucceeds(m) ==
    /\ m \in running
    /\ running' = running \ {m}
    /\ broker' = broker \cup ChainAfter(m)
    /\ events' = Append(events, Event("end", m, TRUE))
    /\ UNCHANGED << new_docs, taskVars, workflowVars, ragVars >>

\* The task raises: the rest of its chain is not run.  When
\* process_document_pipeline raises on a rate limit it asks for a retry,
\* which queues its own message again until max_retries is used up.
TaskRaises(m, rate_limit) ==
    /\ m \in running
    /\ running' = running \ {m}
    /\ broker' = IF /\ m.task = "process_document_pipeline"
                    /\ rate_limit
                    /\ m.retries < pipeline_max_retries
                 THEN broker \cup { [m EXCEPT !.retries = @ + 1] }
                 ELSE broker
    /\ events' = Append(events, Event("end", m, FALSE))
    /\ UNCHANGED << new_docs, taskVars, workflowVars, ragVars >>

NextPipeline ==
    \/ \E docs \in DocLists : check_for_new_docs(docs)
    \/ \E m \in broker : StartTask(m)
    \/ \E m \in running : TaskSucceeds(m)
    \/ \E m \in running, rate_limit \in BOOLEAN : TaskRaises(m, rate_limit)

SpecPipeline == Init /\ [][NextPipeline]_vars

\* ===================================================================
\* RAGProcessor (langgraph_rag.py): the segmentation stage
\* ===================================================================
\* chunk_content.  The limit is the code's 15000 tokens scaled down to the
\* token counts of the modelled paragraphs.
max_input_tokens == 5

\* sentence + '. '
Suffixed(sentence) == [sentence EXCEPT !.suffix = @ + 1]

\* current_chunk += piece
AppendPiece(text, piece) == [text EXCEPT ![Len(text)] = Append(@, piece)]

\* chunks.append(current_chunk.strip()) under `if current_chunk:`
Flushed(acc) ==
    IF Truthy(acc.current_chunk)
    THEN Append(acc.chunks, Strip(acc.current_chunk))
    ELSE acc.chunks

\* The loop over the sentences of a paragraph that alone exceeds the limit.
RECURSIVE SentenceLoop(_, _)
SentenceLoop(sentences, acc) ==
    IF sentences = << >> THEN acc
    ELSE LET sentence == Suffixed(Head(sentences))
             sentence_tokens == sentence.tokens
             next == IF acc.current_tokens + sentence_tokens > max_input_tokens
                     THEN [chunks |-> Flushed(acc),
                           current_chunk |-> << << sentence >> >>,
                           current_tokens |-> sentence_tokens]
                     ELSE [chunks |-> acc.chunks,
                           current_chunk |-> AppendPiece(acc.current_chunk, sentence),
                           current_tokens |-> acc.current_tokens + sentence_tokens]
         IN SentenceLoop(Tail(sentences), next)

\* The loop over the paragraphs.
RECURSIVE ParagraphLoop(_, _)
ParagraphLoop(paragraphs, acc) ==
    IF paragraphs = << >> THEN acc
    ELSE LET paragraph == Head(paragraphs)
             paragraph_tokens == ParagraphTokens(paragraph)
             next == IF paragraph_tokens > max_input_tokens
                     THEN SentenceLoop(paragraph, acc)
                     ELSE IF acc.current_tokens + paragraph_tokens > max_input_tokens
                     THEN [chunks |-> Flushed(acc),
                           current_chunk |-> << paragraph >>,
                           current_tokens |-> paragraph_tokens]
                     ELSE [chunks |-> acc.chunks,
                           current_chunk |-> IF Truthy(acc.current_chunk)
                                             THEN Append(acc.current_chunk, paragraph)
                                             ELSE << paragraph >>,
                           current_tokens |-> acc.current_tokens + paragraph_tokens]
         IN ParagraphLoop(Tail(paragraphs), next)

\* Variant: every paragraph is split by sentences, whatever its size.
RECURSIVE ParagraphLoop_by_sentence(_, _)
ParagraphLoop_by_sentence(paragraphs, acc) ==
    IF paragraphs = << >> THEN acc
    ELSE ParagraphLoop_by_sentence(Tail(paragraphs),
                                   SentenceLoop(Head(paragraphs), acc))

chunk_content_by_sentence(text) ==
    IF count_tokens(text) <= max_input_tokens THEN << text >>
    ELSE Flushed(ParagraphLoop_by_sentence(text, [chunks |-> << >>,
                                                  current_chunk |-> EmptyText,
                                                  current_tokens |-> 0]))

chunk_content(text) ==
    IF count_tokens(text) <= max_input_tokens THEN << text >>
    ELSE Flushed(ParagraphLoop(text, [chunks |-> << >>,
                                      current_chunk |-> EmptyText,
                                      current_tokens |-> 0]))

\* x or literal
Or(text, literal) == IF Truthy(text) THEN text ELSE literal

Max(a, b) == IF a > b THEN a ELSE b

StructuredData(introduction, main_content, conclusion) ==
    [keys |-> 3, introduction |-> introduction, main_content |-> main_content,
     conclusion |-> conclusion]

\* Variant: the heuristic split without the literals that stand in for an
\* empty part.
_create_fallback_response_bare(text, index) ==
    LET total_paragraphs == Len(text)
        intro_end == Max(1, total_paragraphs \div 4)
        conclusion_start == Min(total_paragraphs - 1, (total_paragraphs * 3) \div 4)
    IN StructuredData(JoinParagraphs(SubSeq(text, 1, intro_end)),
                      JoinParagraphs(SubSeq(text, intro_end + 1, conclusion_start)),
                      JoinParagraphs(SubSeq(text, conclusion_start + 1, total_paragraphs)))

_create_fallback_response(text, index) ==
    LET total_paragraphs == Len(text)
        intro_end == Max(1, total_paragraphs \div 4)
        conclusion_start == Min(total_paragraphs - 1, (total_paragraphs * 3) \div 4)
        intro == JoinParagraphs(SubSeq(text, 1, intro_end))
        main == JoinParagraphs(SubSeq(text, intro_end + 1, conclusion_start))
        conclusion == JoinParagraphs(SubSeq(text, conclusion_start + 1, total_paragraphs))
    IN IF total_paragraphs <= 3
       THEN StructuredData(
                Literal("[Fallback] Chunk content (AI processing failed)", index + 1),
                text,
                Literal("[Fallback] End of chunk content", 0))
       ELSE StructuredData(
                Or(intro, Literal("[Fallback] Introduction from chunk", index + 1)),
                Or(main, Literal("[Fallback] Main content from chunk", index + 1)),
                Or(conclusion, Literal("[Fallback] Conclusion from chunk", index + 1)))

\* len(x.strip()) < 10 for the three fields of an answer
VeryShort(response) ==
    /\ StrLen(Strip(response.introduction)) < 10
    /\ StrLen(Strip(response.main_content)) < 10
    /\ StrLen(Strip(response.conclusion)) < 10

\* _process_single_chunk: responses[a] is what the extraction call of
\* attempt a (1-based) does: it raises, it returns an object without the
\* three fields, or it returns an answer.
chunk_max_retries == 2

\* What the extraction call of one attempt amounts to.
CallKind(response) ==
    IF response.kind = "raises" THEN "raises"
    ELSE IF response.kind = "incomplete" THEN "incomplete"
    ELSE IF VeryShort(response) THEN "short"
    ELSE "answer"

\* The structured_data dict built from an accepted answer.
structured_data(response) ==
    StructuredData(
        Or(response.introduction,
           Literal("No introduction identified in this section.", 0)),
        Or(response.main_content,
           Literal("No main content identified in this section.", 0)),
        Or(response.conclusion,
           Literal("No conclusion identified in this section.", 0)))

\* The for loop over the attempts: result is what the function returns,
\* made the kinds of the extraction calls it made, in order.
RECURSIVE chunk_attempt(_, _, _, _)
chunk_attempt(attempt, text, index, responses) ==
    IF attempt >= chunk_max_retries
    THEN [result |-> NoOutput, made |-> SubSeq(responses, 1, attempt)]
    ELSE LET response == responses[attempt + 1]
             failed == CallKind(response) # "answer"
         IN IF failed
            THEN IF attempt < chunk_max_retries - 1
                 THEN chunk_attempt(attempt + 1, text, index, responses)
                 ELSE [result |-> _create_fallback_response(text, index),
                       made |-> SubSeq(responses, 1, attempt + 1)]
            ELSE [result |-> structured_data(response),
                  made |-> SubSeq(responses, 1, attempt + 1)]

\* Variant: after the last failed attempt the function falls out of the
\* loop and returns None.
_process_single_chunk_giving_up(text, index, responses) ==
    LET r == chunk_attempt(0, text, index, responses)
    IN IF CallKind(r.made[Len(r.made)]) # "answer"
       THEN [result |-> NoOutput, made |-> r.made]
       ELSE r

_process_single_chunk(text, index, responses) ==
    chunk_attempt(0, text, index, responses)

\* merge_chunk_results
NotPartial(text) == Truthy(text) /\ ~StartsWithPartial(text)

RECURSIVE NotPartialTexts(_)
NotPartialTexts(texts) ==
    IF texts = << >> THEN << >>
    ELSE IF NotPartial(Head(texts))
    THEN << Head(texts) >> \o NotPartialTexts(Tail(texts))
    ELSE NotPartialTexts(Tail(texts))

RECURSIVE TruthyTexts(_)
TruthyTexts(texts) ==
    IF texts = << >> THEN << >>
    ELSE IF Truthy(Head(texts))
    THEN << Head(texts) >> \o TruthyTexts(Tail(texts))
    ELSE TruthyTexts(Tail(texts))

\* Variant: introductions and conclusions marked [PARTIAL] are merged
\* like the others.
merge_chunk_results_keeping_partial(results) ==
    LET all_intros ==
            TruthyTexts([k \in 1..Len(results) |-> results[k].introduction])
        all_main ==
            TruthyTexts([k \in 1..Len(results) |-> results[k].main_content])
        all_conclusions ==
            TruthyTexts([k \in 1..Len(results) |-> results[k].conclusion])
    IN StructuredData(
           IF all_intros # << >> THEN JoinTexts(all_intros)
           ELSE Literal("Document introduction not clearly identified.", 0),
           IF all_main # << >> THEN JoinTexts(all_main)
           ELSE Literal("Main content processing incomplete.", 0),
           IF all_conclusions # << >> THEN JoinTexts(all_conclusions)
           ELSE Literal("Document conclusion not clearly identified.", 0))

merge_chunk_results(results) ==
    LET all_intros ==
            NotPartialTexts([k \in 1..Len(results) |-> results[k].introduction])
        all_main ==
            TruthyTexts([k \in 1..Len(results) |-> results[k].main_content])
        all_conclusions ==
            NotPartialTexts([k \in 1..Len(results) |-> results[k].conclusion])
    IN StructuredData(
           IF all_intros # << >> THEN JoinTexts(all_intros)
           ELSE Literal("Document introduction not clearly identified.", 0),
           IF all_main # << >> THEN JoinTexts(all_main)
           ELSE Literal("Main content processing incomplete.", 0),
           IF all_conclusions # << >> THEN JoinTexts(all_conclusions)
           ELSE Literal("Document conclusion not clearly identified.", 0))

\* The documents: up to MaxParagraphs paragraphs, each one empty, two short
\* sentences, two sentences that together exceed the limit, or one sentence
\* that alone exceeds it; at most MaxOversized paragraphs exceed the limit.
ParagraphShapes == {"empty", "small", "long", "huge"}

ParagraphOf(shape, p) ==
    IF shape = "empty" THEN << >>
    ELSE IF shape = "small" THEN << Piece("sentence", 10 * p + 1, 1, 12),
                                   Piece("sentence", 10 * p + 2, 1, 12) >>
    ELSE IF shape = "long" THEN << Piece("sentence", 10 * p + 1, 3, 30),
                                  Piece("sentence", 10 * p + 2, 3, 30) >>
    ELSE << Piece("sentence", 10 * p + 1, 6, 60) >>

DocumentOf(shapes) == [p \in 1..Len(shapes) |-> ParagraphOf(shapes[p], p)]

Oversized(shapes) == { p \in 1..Len(shapes) : shapes[p] \in {"long", "huge"} }

Documents ==
    { DocumentOf(shapes) :
        shapes \in { sh \in UNION { [1..n -> ParagraphShapes] : n \in 1..MaxParagraphs } :
                        Cardinality(Oversized(sh)) <= MaxOversized } }

\* What one extraction call on chunk `index` can do.
Response(kind, introduction, main_content, conclusion) ==
    [kind |-> kind, introduction |-> introduction,
     main_content |-> main_content, conclusion |-> conclusion]

TinyText(id) == << << Piece("tiny answer", id, 0, 5) >> >>

Responses(index) ==
    { Response("raises", EmptyText, EmptyText, EmptyText),
      Response("incomplete", EmptyText, EmptyText, EmptyText),
      Response("answer", TinyText(10 * index + 1), EmptyText, TinyText(10 * index + 3)),
      Response("answer", Literal("answer", 10 * index + 1),
                         Literal("answer", 10 * index + 2),
                         Literal("answer", 10 * index + 3)),
      Response("answer", Literal("[PARTIAL] answer", 10 * index + 1),
                         Literal("answer", 10 * index + 2),
                         Literal("[PARTIAL] answer", 10 * index + 3)) }

\* RAGProcessor.process_document up to the first extraction call of
\* process_content: the initial state is built and the content is chunked.
RagProcessDocument(document) ==
    /\ rag_pc = "idle"
    /\ content' = document
    /\ chunks' = chunk_content(document)
    /\ chunk_index' = 0
    /\ chunk_results' = << >>
    /\ structured_output' = NoOutput
    /\ rag_error' = ""
    /\ rag_pc' = "process_content"
    /\ UNCHANGED << workflowVars, celeryVars >>

\* process_content handles one chunk: the only chunk of a document that
\* needed no split (the whole content is sent), or chunk i of several; after
\* the last chunk the results are merged, the state is returned and
\* process_document returns structured_output and error.
ProcessChunk(responses) ==
    /\ rag_pc = "process_content"
    /\ IF Len(chunks) = 1
       THEN LET r == _process_single_chunk(content, 0, responses)
                result == r.result
            IN /\ IF result.keys # 0
                  THEN /\ structured_output' = result
                       /\ rag_error' = ""
                  ELSE /\ structured_output' = NoOutput
                       /\ rag_error' = "Failed to extract structured content from document"
               /\ rag_pc' = "returned"
               /\ UNCHANGED << chunk_index, chunk_results >>
       ELSE LET r == _process_single_chunk(chunks[chunk_index + 1],
                                           chunk_index, responses)
                result == r.result
                results == IF result.keys # 0 THEN Append(chunk_results, result)
                           ELSE chunk_results
            IN /\ chunk_results' = results
               /\ chunk_index' = chunk_index + 1
               /\ IF chunk_index + 1 < Len(chunks)
                  THEN UNCHANGED << structured_output, rag_error, rag_pc >>
                  ELSE /\ IF results # << >>
                          THEN /\ structured_output' = merge_chunk_results(results)
                               /\ rag_error' = ""
                          ELSE /\ structured_output' = NoOutput
                               /\ rag_error' = "Failed to process any document chunks"
                       /\ rag_pc' = "returned"
    /\ UNCHANGED << content, chunks, workflowVars, celeryVars >>

NextRAG ==
    \/ /\ rag_pc = "idle"
       /\ \E document \in Documents : RagProcessDocument(document)
    \/ /\ rag_pc = "process_content"
       /\ \E responses \in [1..chunk_max_retries -> Responses(chunk_index)] :
             ProcessChunk(responses)

SpecRAG == Init /\ [][NextRAG]_vars

\* ===================================================================
\* Properties
\* ===================================================================
AllIndices == 0..(Len(topic_pairs) - 1)

ExpansionStages == {"worker2", "w2_pool", "aggregator", "done"}

\* The first generation pass has stored its worker_outputs.
FirstPassStored ==
    \/ pc \in {"evaluator", "should_retry"} \cup ExpansionStages
    \/ retry_edges > 0
    \/ current_step \in {"Evaluating worker outputs", "Generating full lesson content"}

\* The indices of the units the courses of a list were expanded from, in
\* list order (a course carries its unit's topic pair, not its index).
OriginsOf(courses) ==
    [k \in 1..Len(courses) |->
        IF \E i \in AllIndices : topic_pairs[i + 1] = courses[k].topic_pair
        THEN CHOOSE i \in AllIndices : topic_pairs[i + 1] = courses[k].topic_pair
        ELSE -1]

\* C1: the retry edge from the evaluator back to parallel_workers is taken
\* at most 3 times in a run, whatever the evaluation outcomes; a retry is
\* decided only while fewer than 3 traversals have happened, otherwise the
\* edge to worker2 is taken.
C1_RetryBound ==
    /\ retry_edges <= 3
    /\ (pc = "should_retry" /\ should_retry = "retry") => retry_edges < 3

\* A run whose failures persisted to the end of the retry loop stands at
\* worker2.
C1_Witness ==
    pc = "worker2" /\ failed_indices # << >> /\ retry_edges = 2 /\ retry_count = 3

\* C2: when topic extraction fails, no generation pool runs, no later stage
\* runs, and process_document returns a result with empty final_courses
\* and a non-empty error.
C2_FatalExtractionReturnsError ==
    extraction = "failed" =>
        /\ pc \notin {"pw_pool", "evaluator", "should_retry", "worker2",
                      "w2_pool", "aggregator"}
        /\ pc \in {"done", "crashed"} =>
              (pc = "done" /\ final_courses = << >> /\ error # "")

\* C3: a run whose extraction succeeded is never halted by a failure, for
\* any number of topics and any outcomes of generation, evaluation and
\* expansion: no exception leaves process_document.
C3_RunNeverHalts ==
    extraction = "ok" => pc # "crashed"

\* C4: a unit that is still failing when the retry loop ends has been
\* regenerated through the retry edge 3 times, and is absent from
\* final_courses.
C4_ThreeRetryCycles ==
    pc \in ExpansionStages =>
        \A i \in Range(failed_indices) :
            /\ retries_of[i] = 3
            /\ \A k \in 1..Len(final_courses) : OriginsOf(final_courses)[k] # i

\* C5: when a run returns with units dropped after failing all 3 allowed
\* generation attempts while the others passed, final_courses holds
\* exactly the courses of the other units and error is the empty string.
C5_PartialSuccess ==
    (pc = "done" /\ failed_indices # << >>) =>
        /\ \A i \in Range(failed_indices) : retries_of[i] + 1 = 3
        /\ Range(OriginsOf(final_courses)) = AllIndices \ Range(failed_indices)
        /\ Len(final_courses) = Len(topic_pairs) - Len(failed_indices)
        /\ error = ""

\* Two topics, unit 0 failed every evaluation, unit 1 passed: one course.
C5_Witness ==
    /\ pc = "done"
    /\ Len(topic_pairs) = 2
    /\ failed_indices = << 0 >>
    /\ Len(final_courses) = 1
    /\ OriginsOf(final_courses) = << 1 >>

\* C6: when a run returns with every unit passed, final_courses has one
\* course per extracted topic and retry_count equals the number of
\* evaluation passes that found at least one failing unit.
C6_AllPassed ==
    (pc = "done" /\ failed_indices = << >>) =>
        /\ Len(final_courses) = Len(topic_pairs)
        /\ Range(OriginsOf(final_courses)) = AllIndices
        /\ retry_count = failing_passes

\* Unit 1 failed evaluation twice and passed on its third generation.
C6_Witness ==
    /\ pc = "done"
    /\ failed_indices = << >>
    /\ Len(topic_pairs) = 2
    /\ retries_of[0] = 0
    /\ retries_of[1] = 2
    /\ retry_count = 2
    /\ Len(final_courses) = 2

\* C7: once the first generation pass has stored its results, the indices
\* in worker_outputs are exactly 0..N-1, each once, in every later state.
C7_IndexStability ==
    FirstPassStored =>
        /\ Indices(worker_outputs) = AllIndices
        /\ Len(worker_outputs) = Len(topic_pairs)

\* A second retry pass that regenerated fewer units than there are topics
\* and in which a generation failed has stored its results.
C7_Witness ==
    /\ pc = "evaluator"
    /\ retry_edges = 2
    /\ Len(failed_indices) < Len(topic_pairs)
    /\ gen_failed # {}

\* C8: the stored worker_outputs list is strictly ascending in index,
\* whatever order the generation workers completed in.
C8_StoredSorted ==
    IsAscending(worker_outputs)

\* A pass whose results arrived out of index order has been stored.
C8_Witness ==
    pc = "evaluator" /\ unordered_arrival /\ Len(worker_outputs) = 2

\* C9: the final_courses of a returned run are in ascending order of the
\* originating unit's index, whatever order the expansions completed in.
C9_FinalCoursesInIndexOrder ==
    pc = "done" =>
        \A a, b \in 1..Len(final_courses) :
            a < b => OriginsOf(final_courses)[a] < OriginsOf(final_courses)[b]

\* C10: after a generation pass, every unit of the pass whose generation
\* succeeded has its own draft (its index, its topic pair, the answer of
\* this pass) in worker_outputs, and every unit whose generation failed
\* has an error-marked draft under its own index.
C10_Isolation ==
    pc = "evaluator" =>
        \A i \in Range(topics_to_process) :
            \E k \in 1..Len(worker_outputs) :
                /\ worker_outputs[k].index = i
                /\ IF i \in gen_failed
                   THEN HasError(worker_outputs[k])
                   ELSE worker_outputs[k] =
                            DraftResult(i, topic_pairs[i + 1], retry_count, NumLessons)

\* A pass in which one unit failed generation and another succeeded.
C10_Witness ==
    /\ pc = "evaluator"
    /\ gen_failed # {}
    /\ Range(topics_to_process) \ gen_failed # {}

\* The verdict the error branch of the evaluator builds for an error-marked
\* draft: failing, with the draft's error text as feedback.
ErrorVerdict(output) ==
    [index |-> output.index, passed |-> FALSE,
     feedback |-> [src |-> output.error, of |-> output.index, pass |-> -1]]

\* The verdicts of a list that carry index i.
VerdictsOf(results, i) ==
    {k \in 1..Len(results) : results[k].index = i}

\* An evaluation pass on a retry completes in this step.
RetryEvaluationStep ==
    pc = "evaluator" /\ pc' = "should_retry" /\ retry_count > 0

\* C11: after an evaluation pass on a retry, evaluation_results holds
\* exactly one verdict per index: for every re-evaluated index a verdict
\* of this pass on its draft, and for every other index its previous
\* verdict unchanged.
C11_VerdictMerge ==
    [][RetryEvaluationStep =>
        \A i \in AllIndices :
            /\ Cardinality(VerdictsOf(evaluation_results', i)) = 1
            /\ LET new == evaluation_results'[CHOOSE k \in VerdictsOf(evaluation_results', i) : TRUE]
               IN IF i \in Indices(outputs_to_evaluate)
                  THEN IF HasError(OutputOf(i))
                       THEN new = ErrorVerdict(OutputOf(i))
                       ELSE \E j \in Judgments : new = eval_dict_of(OutputOf(i), j)
                  ELSE \E k \in VerdictsOf(evaluation_results, i) :
                           new = evaluation_results[k]]_vars

\* C12: an error-marked draft gets, under its own index, a failing verdict
\* whose feedback is the error text, and its index is in failed_indices;
\* the evaluation of such a draft raises nothing.
C12_ErrorDraftVerdict ==
    /\ exception # "UnboundLocalError"
    /\ pc = "should_retry" =>
          \A k \in 1..Len(worker_outputs) :
              HasError(worker_outputs[k]) =>
                  /\ worker_outputs[k].index \in Range(failed_indices)
                  /\ \E m \in 1..Len(evaluation_results) :
                         evaluation_results[m] = ErrorVerdict(worker_outputs[k])

\* C13: after every evaluation pass, an index is in failed_indices if and
\* only if its stored verdict in evaluation_results is failing.
C13_FailedIffFailingVerdict ==
    pc = "should_retry" =>
        /\ \A i \in AllIndices : Cardinality(VerdictsOf(evaluation_results, i)) = 1
        /\ Range(failed_indices) =
               {i \in AllIndices : \E k \in VerdictsOf(evaluation_results, i) :
                                       ~evaluation_results[k].passed}

\* The set of units worker2_node has to expand: not failed, no error marker.
ToExpand ==
    {i \in Indices(worker_outputs) :
        i \notin Range(failed_indices) /\ ~HasError(OutputOf(i))}

\* C14: worker2_node expands exactly the drafts whose index is not in the
\* final failed_indices and that carry no error marker: the origins of
\* final_courses are that set, each once; while the pool runs, every such
\* unit is running, queued or collected, and no other unit is.
C14_ExpandsExactlyPassed ==
    /\ pc \in {"aggregator", "done"} =>
          /\ Range(OriginsOf(final_courses)) = ToExpand
          /\ Len(final_courses) = Cardinality(ToExpand)
    /\ pc = "w2_pool" =>
          /\ Range(OriginsOf(pool_results)) \cup pool_running \cup Range(pool_queue)
                 = ToExpand
          /\ Len(pool_results) + Cardinality(pool_running) + Len(pool_queue)
                 = Cardinality(ToExpand)

\* Unit 0 passed, unit 1 ended with an error-marked draft: worker2_node has
\* stored the single course of unit 0.
C14_Witness ==
    /\ pc = "aggregator"
    /\ Len(topic_pairs) = 2
    /\ failed_indices = << 1 >>
    /\ HasError(OutputOf(1))
    /\ OriginsOf(final_courses) = << 0 >>

\* The stages in which the drafts of the last generation pass are stored.
AfterStore == {"evaluator", "should_retry"} \cup ExpansionStages

\* C15: every evaluation and expansion of a unit uses the most recently
\* generated draft of its index: the stored draft of a unit is the one of
\* its last regeneration, a failing judgment stored for a unit is a
\* judgment of that draft, and the course of a unit is built from it.
C15_LatestDraftUsed ==
    /\ pc \in AfterStore =>
          \A i \in AllIndices :
              /\ Cardinality({k \in 1..Len(worker_outputs) : worker_outputs[k].index = i}) = 1
              /\ ~HasError(OutputOf(i)) =>
                    OutputOf(i).course_name = [of |-> i, pass |-> retries_of[i]]
    /\ pc = "should_retry" =>
          \A i \in Range(failed_indices) :
              ~HasError(OutputOf(i)) =>
                  \E k \in VerdictsOf(evaluation_results, i) :
                      /\ ~evaluation_results[k].passed
                      /\ evaluation_results[k].feedback.of = i
                      /\ evaluation_results[k].feedback.pass = retries_of[i]
    /\ pc \in {"aggregator", "done"} =>
          \A k \in 1..Len(final_courses) :
              LET i == OriginsOf(final_courses)[k]
              IN /\ i \in AllIndices
                 /\ final_courses[k].course_name = [of |-> i, pass |-> retries_of[i]]

\* Unit 1 was regenerated twice and passed on its last draft; its course is
\* in final_courses.
C15_Witness ==
    /\ pc = "done"
    /\ Len(topic_pairs) = 2
    /\ retries_of[1] = 2
    /\ \E k \in 1..Len(final_courses) :
           final_courses[k].course_name = [of |-> 1, pass |-> 2]

\* A lesson of a course is the stub of its draft with the three detail
\* lists empty.
IsDegraded(lesson, stub) ==
    /\ lesson.lesson_number = stub.lesson_number
    /\ lesson.lesson_title = stub.lesson_title
    /\ lesson.lesson_introduction = stub.lesson_introduction
    /\ lesson.skill_aims = << >>
    /\ lesson.language_learning_aims = << >>
    /\ lesson.lesson_summary = << >>

IsExpanded(lesson) ==
    /\ lesson.skill_aims # << >>
    /\ lesson.language_learning_aims # << >>
    /\ lesson.lesson_summary # << >>

\* C16: a lesson whose expansion call failed is kept in its position with
\* its stub fields and empty skill_aims, language_learning_aims and
\* lesson_summary; its course is in final_courses with as many lessons, in
\* the same order, as its draft, and the other lessons are expanded.
C16_DegradedLessonKept ==
    pc \in {"aggregator", "done"} =>
        /\ \A f \in lessons_failed : f[1] \in Range(OriginsOf(final_courses))
        /\ \A k \in 1..Len(final_courses) :
               LET i == OriginsOf(final_courses)[k]
                   stubs == OutputOf(i).lessons
                   lessons == final_courses[k].lessons
               IN /\ Len(lessons) = Len(stubs)
                  /\ \A p \in 1..Len(stubs) :
                         IF << i, p >> \in lessons_failed
                         THEN IsDegraded(lessons[p], stubs[p])
                         ELSE IsExpanded(lessons[p])

\* A returned run in which the call for lesson 1 of unit 0 failed and the
\* call for its lesson 2 returned.
C16_Witness ==
    /\ pc = "done"
    /\ << 0, 1 >> \in lessons_failed
    /\ << 0, 2 >> \notin lessons_failed
    /\ \E k \in 1..Len(final_courses) :
           /\ OriginsOf(final_courses)[k] = 0
           /\ Len(final_courses[k].lessons) = 2

\* C18: whatever the progress sink does, the run is neither blocked nor
\* failed by it, and the result is the one of a run without a sink: in
\* particular a run whose extraction calls succeeded reports no
\* orchestrator error.
C18_StatusFireAndForget ==
    /\ pc # "blocked"
    /\ exception # "CallbackError"
    /\ extraction = "ok" => error = ""

\* The state process_document hands to the graph on a new workflow object.
FreshlyStarted ==
    /\ role = "" /\ industry = ""
    /\ topic_pairs = << >>
    /\ worker_outputs = << >>
    /\ evaluation_results = << >>
    /\ retry_count = 0
    /\ failed_indices = << >>
    /\ final_courses = << >>
    /\ error = ""
    /\ current_step = "Starting"
    /\ exception = ""
    /\ poolVars = << 0, << >>, {}, << >> >>

\* The courses of a result, whatever their order.  A course is determined
\* by the responses of the run: its draft by the number of failing
\* judgments of its unit, its lessons by the answers of the expansion calls.
CoursesOf(result) == Range(result.final_courses)

\* C19: process_document is repeatable: every invocation, the first or a
\* later one, starts the graph from the same state and sees no run state
\* of an earlier one, and an invocation that got the responses of the
\* previous one returns the result of the previous one.
C19_Repeatable ==
    /\ pc = "orchestrator" => FreshlyStarted
    /\ retry_count = failing_passes
    /\ (pc = "done" /\ earlier_call.outcome = "returned"
           /\ CoursesOf(Result) = CoursesOf(earlier_call.result)) =>
          Result = earlier_call.result

\* C20: should_retry returns "retry" if and only if failed_indices is
\* non-empty and retry_count < 3, and "continue" otherwise; taking the
\* edge changes no field of the run state.
C20_ShouldRetry ==
    /\ [](/\ should_retry \in {"retry", "continue"}
          /\ should_retry = "retry" <=> (failed_indices # << >> /\ retry_count < 3))
    /\ [][pc = "should_retry" =>
            /\ UNCHANGED stateVars
            /\ pc' = IF failed_indices # << >> /\ retry_count < 3
                     THEN "parallel_workers" ELSE "worker2"]_vars

\* The decision is taken with failures left and the counter at its bound.
C20_Witness ==
    /\ pc = "should_retry"
    /\ failed_indices # << >>
    /\ retry_count = 3
    /\ should_retry = "continue"

\* C17: for a document of at least 4 paragraphs, whatever the extraction
\* calls do (raise, answer without the fields, answer too short, answer),
\* RAGProcessor.process_document returns error == "" and a
\* structured_output whose introduction, main_content and conclusion are
\* non-empty strings, whether the document was split into chunks or not.
C17_FallbackGuarantee ==
    (rag_pc = "returned" /\ Len(content) >= 4) =>
        /\ rag_error = ""
        /\ structured_output.keys = 3
        /\ Truthy(structured_output.introduction)
        /\ Truthy(structured_output.main_content)
        /\ Truthy(structured_output.conclusion)

\* A document of 4 paragraphs or more was split into several chunks and
\* every extraction attempt on every chunk failed: all chunk results are
\* heuristic fallbacks.
C17_Witness ==
    /\ rag_pc = "returned"
    /\ Len(content) >= 4
    /\ Len(chunks) > 1
    /\ Len(chunk_results) = Len(chunks)
    /\ \A k \in 1..Len(chunks) :
           chunk_results[k] = _create_fallback_response(chunks[k], k - 1)

\* The indices handed to the pool by the submit loop that just ended.
Submitted == pool_running \cup Range(pool_queue)

\* C21: a retry pass of parallel_workers_node submits exactly the indices
\* in failed_indices, collects a result for exactly those, and stores a
\* list in which the draft of every index outside failed_indices is the
\* one it was before the pass.
C21_RetryPassFrame ==
    [][/\ (pc = "parallel_workers" /\ pc' = "pw_pool" /\ IsRetryPass) =>
              Submitted' = Range(failed_indices)
       /\ (pc = "pw_pool" /\ pc' = "evaluator" /\ IsRetryPass) =>
              /\ Indices(pool_results) = Range(failed_indices)
              /\ Len(worker_outputs') = Len(worker_outputs)
              /\ \A k \in 1..Len(worker_outputs) :
                     worker_outputs[k].index \notin Range(failed_indices) =>
                         \E j \in 1..Len(worker_outputs') :
                             worker_outputs'[j] = worker_outputs[k]]_vars

\* A retry pass has stored its results: one unit still carries the draft
\* of the first pass, another the draft of the retry pass.
C21_Witness ==
    /\ pc = "evaluator"
    /\ retry_count > 0
    /\ \E i, j \in 1..Len(worker_outputs) :
           /\ worker_outputs[i].index \notin Range(failed_indices)
           /\ worker_outputs[i] =
                  DraftResult(worker_outputs[i].index,
                              topic_pairs[worker_outputs[i].index + 1], 0, NumLessons)
           /\ worker_outputs[j].index \in Range(failed_indices)
           /\ worker_outputs[j].course_name.pass = retry_count

\* C22: in a retry pass every retried index is submitted with the feedback
\* of its own latest failing verdict: the judge's feedback (or the
\* evaluation error) on its previous draft, or that draft's error text
\* when it carried an error marker; never None, never another index's.
C22_OwnFeedback ==
    (pc = "pw_pool" /\ IsRetryPass) =>
        \A i \in Range(failed_indices) :
            /\ sent_feedback[i] # NoFeedback
            /\ sent_feedback[i].of = i
            /\ IF HasError(OutputOf(i))
               THEN sent_feedback[i] = ErrorVerdict(OutputOf(i)).feedback
               ELSE sent_feedback[i] \in {JudgeFeedback(OutputOf(i)),
                                          EvalErrorFeedback(OutputOf(i))}

\* The as_completed loop of a generation pass collects one work item.
GenerationStep ==
    pc = "pw_pool" /\ Len(pool_results') = Len(pool_results) + 1

\* C23: a generation work item makes at most 3 generator calls and none
\* after a call that returned; it yields the unit's draft when a call
\* returned and an error-marked draft under the unit's index when all 3
\* calls failed; the stage goes on (no exception leaves it) and
\* retry_count and failed_indices stay as they were.
C23_LocalAttempts ==
    [][/\ pc = "pw_pool" => pc' \in {"pw_pool", "evaluator"}
       /\ GenerationStep =>
              LET made == last_calls'
                  draft == pool_results'[Len(pool_results')]
              IN /\ Len(made) \in 1..3
                 /\ \A a \in 1..(Len(made) - 1) : ~made[a]
                 /\ draft.index \in pool_running
                 /\ IF made[Len(made)]
                    THEN draft = DraftResult(draft.index, topic_pairs[draft.index + 1],
                                             retry_count, NumLessons)
                    ELSE Len(made) = 3 /\ HasError(draft)
                 /\ pc' = "pw_pool"
                 /\ exception' = exception
                 /\ retry_count' = retry_count
                 /\ failed_indices' = failed_indices]_vars

\* A pass in which one unit succeeded on a later attempt has just
\* collected the error-marked draft of a unit whose three calls failed.
C23_Witness ==
    /\ pc = "pw_pool"
    /\ last_calls = << FALSE, FALSE, FALSE >>
    /\ Len(pool_results) = 2
    /\ ~HasError(pool_results[1])
    /\ pool_results[2] = ErrorDraft(pool_results[2].index)
    /\ pool_results[2].index # pool_results[1].index

\* C24: a lesson stands degraded (stub fields, empty detail lists) in a
\* final course only after 3 generation calls were made for it, all of
\* which failed; a lesson for which 2 or 3 calls were made and the last
\* returned is expanded.
C24_LessonRetriedBeforeDegraded ==
    pc \in {"aggregator", "done"} =>
        \A k \in 1..Len(final_courses) :
            LET i == OriginsOf(final_courses)[k]
                stubs == OutputOf(i).lessons
                lessons == final_courses[k].lessons
            IN \A p \in 1..Len(lessons) :
                   /\ IsDegraded(lessons[p], stubs[p]) =>
                          /\ lesson_calls[i] = 3
                          /\ << i, p >> \in lessons_failed
                   /\ (lesson_calls[i] > 1 /\ << i, p >> \notin lessons_failed) =>
                          IsExpanded(lessons[p])

\* C25: the error field is non-empty only when topic extraction failed;
\* failed generation calls, evaluation calls and expansions leave it
\* empty, and a returned run carries error = "" and the aggregation
\* stage's label in current_step.
C25_ErrorOnlyFromExtraction ==
    /\ error # "" => extraction = "failed"
    /\ pc = "done" => (error = "" /\ current_step = "Aggregating final output")

\* A returned run in which an evaluation pass found failures, a unit ended
\* with an error-marked draft and a lesson expansion failed.
C25_Witness ==
    /\ pc = "done"
    /\ failing_passes > 0
    /\ \E k \in 1..Len(worker_outputs) : HasError(worker_outputs[k])
    /\ lessons_failed # {}
    /\ error = ""

\* An evaluation pass completes in this step.
EvaluationStep == pc = "evaluator" /\ pc' = "should_retry"

\* C26: retry_count is 0 when a run starts and stays within 0..3; only a
\* step of evaluator_node changes it; an evaluation pass adds exactly 1
\* when its failed set is non-empty and leaves it alone otherwise.
C26_RetryCount ==
    /\ [](retry_count \in 0..3)
    /\ [](pc = "orchestrator" => retry_count = 0)
    /\ [][/\ retry_count' # retry_count => pc = "evaluator"
          /\ EvaluationStep =>
                 retry_count' = IF failed_indices' # << >>
                                THEN retry_count + 1
                                ELSE retry_count]_vars

\* The counter was raised twice and the third evaluation pass, which found
\* no failure, left it at 2.
C26_Witness ==
    /\ pc = "should_retry"
    /\ retry_edges = 2
    /\ retry_count = 2
    /\ failed_indices = << >>

\* The positions the coordinating thread can move to from position p: the
\* edges of _build_workflow, with the pool phase inside each fan-out node
\* and the exit by an uncaught exception from the nodes that can raise.
Successors(p) ==
    CASE p = "idle" -> {"orchestrator"}
      [] p = "orchestrator" -> {"parallel_workers"}
      [] p = "parallel_workers" -> {"pw_pool", "crashed"}
      [] p = "pw_pool" -> {"evaluator"}
      [] p = "evaluator" -> {"should_retry", "crashed"}
      [] p = "should_retry" -> {"parallel_workers", "worker2"}
      [] p = "worker2" -> {"w2_pool", "crashed"}
      [] p = "w2_pool" -> {"aggregator"}
      [] p = "aggregator" -> {"done"}
      [] OTHER -> {}

\* Stages with more than one successor stage in the graph.
Branching ==
    {p \in {"idle", "orchestrator", "parallel_workers", "pw_pool", "evaluator",
            "should_retry", "worker2", "w2_pool", "aggregator"} :
        Cardinality(Successors(p) \ {"crashed"}) > 1}

\* C27: the coordinating thread moves only along orchestrator ->
\* parallel_workers -> evaluator -> (parallel_workers | worker2) ->
\* aggregator -> END; pool work runs only inside its fan-out node; the
\* edge out of the evaluator is the only one with two targets; nothing
\* leads back from worker2 or the aggregator, so a completed run has run
\* each of them once, and it ends with the aggregator's label.
C27_StageOrder ==
    /\ [][pc' # pc => pc' \in Successors(pc)]_vars
    /\ [](pool_running # {} => pc \in {"pw_pool", "w2_pool"})
    /\ [](Branching = {"should_retry"})
    /\ [][(pc = "worker2" \/ pc = "w2_pool") => (pc' # "worker2" /\ pc' # "done")]_vars
    /\ [](pc = "done" => current_step = "Aggregating final output")

\* A completed run that went twice through the retry edge before worker2
\* and the aggregator ran.
C27_Witness ==
    /\ pc = "done"
    /\ retry_edges = 2
    /\ current_step = "Aggregating final output"
    /\ Len(final_courses) > 0

\* C28: while a generation pass runs, at most min(5, units submitted in
\* the pass) work items are held by pool threads, and while the expansion
\* stage runs, at most min(3, surviving units).
C28_PoolCaps ==
    /\ pc = "pw_pool" =>
           /\ Cardinality(pool_running) <= Min(5, Len(topics_to_process))
           /\ pool_max = Min(5, Len(topics_to_process))
    /\ pc = "w2_pool" =>
           /\ Cardinality(pool_running) <= Min(3, Len(passed_courses))
           /\ pool_max = Min(3, Len(passed_courses))

\* More units than the pool has threads: every thread of the expansion
\* pool holds a work item while others wait, after the generation pool of
\* the run was full with an item waiting.
C28_Witness ==
    /\ pc = "w2_pool"
    /\ Len(topic_pairs) > 5
    /\ Cardinality(pool_running) = 3
    /\ Len(pool_queue) >= 2
    /\ Len(passed_courses) > 3

\* The submitted units whose work item has not completed.
UnfinishedUnits == pool_running \cup Range(pool_queue)

\* C29: while a pool has unfinished units, worker_outputs and
\* final_courses do not change; either is written only by the step of the
\* coordinating thread that follows the completion of every submitted
\* unit, once per pass, with a result for each unit of the pass.
C29_WrittenAfterDrain ==
    [][/\ ((pc = "pw_pool" \/ pc = "w2_pool") /\ UnfinishedUnits # {}) =>
              (worker_outputs' = worker_outputs /\ final_courses' = final_courses)
       /\ worker_outputs' # worker_outputs =>
              /\ pc = "pw_pool" /\ pc' = "evaluator" /\ UnfinishedUnits = {}
              /\ Indices(pool_results) = Range(topics_to_process)
              /\ final_courses' = final_courses
       /\ final_courses' # final_courses =>
              /\ pc = "w2_pool" /\ pc' = "aggregator" /\ UnfinishedUnits = {}
              /\ Len(pool_results) = Len(passed_courses)
              /\ worker_outputs' = worker_outputs]_vars

\* Both pools of a run have written their results: two drafts after a
\* generation pass that collected them out of index order, and two final
\* courses.
C29_Witness ==
    /\ pc = "aggregator"
    /\ unordered_arrival
    /\ Len(worker_outputs) = 2
    /\ Len(final_courses) = 2

\* C30: aggregator_node changes current_step and nothing else of the run
\* state: final_courses, worker_outputs, evaluation_results,
\* failed_indices, retry_count, role, industry, error and topic_pairs stay
\* as they were, and it starts no pool and makes no generation call.
C30_AggregatorFrame ==
    [][pc = "aggregator" =>
          /\ current_step' = "Aggregating final output"
          /\ UNCHANGED << final_courses, worker_outputs, evaluation_results,
                          failed_indices, retry_count, role, industry, error,
                          topic_pairs >>
          /\ UNCHANGED << poolVars, sent_feedback, last_calls, lesson_calls,
                          lessons_failed, gen_failed >>]_vars

\* The aggregator has run on a state that holds a final course, a unit
\* that failed to the end and a used-up retry budget.
C30_Witness ==
    /\ pc = "done"
    /\ current_step = "Aggregating final output"
    /\ final_courses # << >>
    /\ failed_indices # << >>
    /\ retry_count = 3
    /\ role # ""

\* The drafts and courses the run holds, stored or still in the local
\* list of a pool loop.
HeldDrafts ==
    Range(worker_outputs) \cup (IF pc = "pw_pool" THEN Range(pool_results) ELSE {})

HeldCourses ==
    Range(final_courses) \cup (IF pc = "w2_pool" THEN Range(pool_results) ELSE {})

\* C31: only the orchestrator writes topic_pairs; every draft without an
\* error marker carries the topic pair of its own index, every course
\* carries the topic pair of the unit whose answer it holds, and every
\* failing verdict carries feedback on the unit of its own index.
C31_IndexJoin ==
    /\ [][topic_pairs' # topic_pairs => pc = "orchestrator"]_vars
    /\ [](\A d \in HeldDrafts :
              ~HasError(d) =>
                  /\ d.index \in AllIndices
                  /\ d.course_name.of = d.index
                  /\ d.topic_pair = topic_pairs[d.index + 1])
    /\ [](\A c \in HeldCourses :
              /\ c.course_name.of \in AllIndices
              /\ c.topic_pair = topic_pairs[c.course_name.of + 1])
    /\ [](\A k \in 1..Len(evaluation_results) :
              evaluation_results[k].feedback # NoFeedback =>
                  evaluation_results[k].feedback.of = evaluation_results[k].index)

\* A returned run with a retry pass whose two courses were collected in
\* reverse index order.
C31_Witness ==
    /\ pc = "done"
    /\ retry_edges > 0
    /\ Len(final_courses) = 2
    /\ final_courses[1].course_name.of = 1
    /\ final_courses[2].course_name.of = 0

\* C32: an evaluation pass in which a judgment call raised runs to its
\* end: each such draft gets, under its own index, a failing verdict whose
\* feedback names the evaluation error, and its index is in
\* failed_indices; every other draft of the pass is evaluated as well
\* (judged drafts have a verdict of this pass, error-marked ones are in
\* failed_indices).
C32_JudgmentFailure ==
    [][(pc = "evaluator" /\ judge_raised' # {}) =>
          /\ pc' = "should_retry"
          /\ exception' = ""
          /\ \A i \in judge_raised' :
                 /\ i \in Range(failed_indices')
                 /\ \E k \in 1..Len(evaluation_results') :
                        /\ evaluation_results'[k].index = i
                        /\ ~evaluation_results'[k].passed
                        /\ evaluation_results'[k].feedback = EvalErrorFeedback(OutputOf(i))
          /\ \A j \in Indices(outputs_to_evaluate) :
                 IF HasError(OutputOf(j))
                 THEN j \in Range(failed_indices')
                 ELSE \E k \in 1..Len(evaluation_results'), x \in Judgments :
                          evaluation_results'[k] = eval_dict_of(OutputOf(j), x)]_vars

\* The judgment call on the draft of unit 0 raised and the pass went on to
\* judge the draft of unit 1, which passed.
C32_Witness ==
    /\ pc = "should_retry"
    /\ judge_raised = {0}
    /\ failed_indices = << 0 >>
    /\ Len(evaluation_results) = 2
    /\ evaluation_results[2].index = 1
    /\ evaluation_results[2].passed

\* A step in which a node of the graph reports a stage: each of these
\* nodes calls update_status before it does anything else.
ReportsStage ==
    /\ (pc = "orchestrator" \/ pc = "parallel_workers" \/ pc = "evaluator"
           \/ pc = "worker2" \/ pc = "aggregator")
    /\ pc' # pc

\* The callback update_status hands the event to, if any.
Receiver == status_callback

\* C33: the status callback given to the constructor receives the event of
\* every stage a later process_document run reports, also when
\* process_document is called without a status_callback argument.
C33_RegisteredCallbackReceives ==
    [][ReportsStage => Receiver = "registered"]_vars

\* The text the next extraction calls of process_content are made on.
ChunkInHand == IF Len(chunks) = 1 THEN content ELSE chunks[chunk_index + 1]

ChunkResponses == [1..chunk_max_retries -> Responses(chunk_index)]

\* C34: whatever the extraction calls do, _process_single_chunk makes at
\* most two of them, a second one only after the first failed (it raised,
\* came back without the fields, or had three fields under 10 characters);
\* it returns the heuristic fallback after two failed attempts, the answer
\* of the first attempt that did not fail otherwise, and never None: no
\* chunk of a document goes without a result.
C34_TwoAttemptsThenFallback ==
    /\ rag_pc = "process_content" =>
          \A responses \in ChunkResponses :
             LET r == _process_single_chunk(ChunkInHand, chunk_index, responses)
                 n == Len(r.made)
             IN /\ n \in 1..2
                /\ r.made = SubSeq(responses, 1, n)
                /\ n = 2 => CallKind(r.made[1]) # "answer"
                /\ r.result # NoOutput
                /\ r.result.keys = 3
                /\ IF CallKind(r.made[n]) = "answer"
                   THEN r.result = structured_data(r.made[n])
                   ELSE /\ n = 2
                        /\ r.result = _create_fallback_response(ChunkInHand, chunk_index)
    /\ (rag_pc # "idle" /\ Len(chunks) > 1) => Len(chunk_results) = chunk_index
    /\ rag_pc = "returned" => (structured_output # NoOutput /\ rag_error = "")

\* A document of two chunks came back: the calls on the first chunk failed
\* twice and its result is the fallback, the second chunk was answered.
C34_Witness ==
    /\ rag_pc = "returned"
    /\ Len(chunks) = 2
    /\ Len(chunk_results) = 2
    /\ chunk_results[1] = _create_fallback_response(chunks[1], 0)
    /\ \E x \in Responses(1) :
          CallKind(x) = "answer" /\ chunk_results[2] = structured_data(x)

\* The texts of one field of the chunk results, in chunk order.
FieldTexts(field) == [k \in 1..Len(chunk_results) |-> chunk_results[k][field]]

Kept(text) == text # EmptyText /\ ~StartsWithPartial(text)

\* A field of the merged document: the texts joined by blank lines, or the
\* placeholder when there is none.
Merged(texts, placeholder) ==
    IF texts = << >> THEN Literal(placeholder, 0) ELSE JoinTexts(texts)

\* C35: the document merged from the chunk results has, in chunk order,
\* the introductions that are non-empty and not marked [PARTIAL], the main
\* content of every chunk, and the conclusions picked like the
\* introductions; a category without a text gets its placeholder, so no
\* field of the merged document is empty.
C35_MergeInChunkOrder ==
    (rag_pc = "returned" /\ Len(chunks) > 1) =>
        /\ structured_output.introduction =
               Merged(SelectSeq(FieldTexts("introduction"), Kept),
                      "Document introduction not clearly identified.")
        /\ structured_output.main_content =
               Merged(FieldTexts("main_content"),
                      "Main content processing incomplete.")
        /\ structured_output.conclusion =
               Merged(SelectSeq(FieldTexts("conclusion"), Kept),
                      "Document conclusion not clearly identified.")
        /\ StrLen(structured_output.introduction) > 0
        /\ StrLen(structured_output.main_content) > 0
        /\ StrLen(structured_output.conclusion) > 0

\* Three chunks were merged: the introduction of the second is marked
\* [PARTIAL], those of the first and the third are not.
C35_Witness ==
    /\ rag_pc = "returned"
    /\ Len(chunk_results) = 3
    /\ Kept(chunk_results[1].introduction)
    /\ StartsWithPartial(chunk_results[2].introduction)
    /\ Kept(chunk_results[3].introduction)
    /\ structured_output.introduction =
           chunk_results[1].introduction \o chunk_results[3].introduction

\* The sentences of a text in reading order, as chunk_content left them
\* (a sentence of a paragraph split by sentences carries an added '. ').
RECURSIVE SentencesOf(_)
SentencesOf(text) ==
    IF text = << >> THEN << >> ELSE Head(text) \o SentencesOf(Tail(text))

RECURSIVE SentencesOfAll(_)
SentencesOfAll(texts) ==
    IF texts = << >> THEN << >>
    ELSE SentencesOf(Head(texts)) \o SentencesOfAll(Tail(texts))

\* The sentence as it stands in the document.
Unsuffixed(sentence) == [sentence EXCEPT !.suffix = 0]

\* The paragraph stands whole and unchanged in the chunk.
WholeIn(paragraph, chunk) ==
    \E q \in 1..Len(chunk) : \E from \in 1..Len(chunk[q]) :
        /\ from + Len(paragraph) - 1 <= Len(chunk[q])
        /\ SubSeq(chunk[q], from, from + Len(paragraph) - 1) = paragraph

\* C36: content within the limit comes back as the one chunk; content
\* above it is cut so that the sentences of the chunks, read in chunk
\* order, are those of the document in document order, each once; and a
\* paragraph that does not exceed the limit alone stands whole in one
\* chunk: a cut falls between paragraphs, or between the sentences of a
\* paragraph that alone exceeds the limit.
C36_ChunkingKeepsParagraphs ==
    rag_pc # "idle" =>
        IF count_tokens(content) <= max_input_tokens
        THEN chunks = << content >>
        ELSE /\ LET held == SentencesOfAll(chunks)
                IN [k \in 1..Len(held) |-> Unsuffixed(held[k])] = SentencesOf(content)
             /\ \A p \in 1..Len(content) :
                    (content[p] # << >> /\ ParagraphTokens(content[p]) <= max_input_tokens)
                        => \E k \in 1..Len(chunks) : WholeIn(content[p], chunks[k])

\* A document of three paragraphs was cut in two chunks: the second
\* paragraph exceeds the limit alone and its two sentences went to
\* different chunks, the first with the paragraph before it, the second
\* with the paragraph after it.
C36_Witness ==
    /\ rag_pc # "idle"
    /\ Len(content) = 3
    /\ ParagraphTokens(content[2]) > max_input_tokens
    /\ Len(content[2]) = 2
    /\ Len(chunks) = 2
    /\ WholeIn(content[1], chunks[1])
    /\ Suffixed(content[2][1]) \in Range(SentencesOf(chunks[1]))
    /\ Suffixed(content[2][2]) \in Range(SentencesOf(chunks[2]))
    /\ WholeIn(content[3], chunks[2])

\* C40: no chunk chunk_content returns has more tokens than
\* max_input_tokens, also for a document with a single sentence longer
\* than the limit.
C40_ChunkWithinLimit ==
    rag_pc # "idle" =>
        \A k \in 1..Len(chunks) : count_tokens(chunks[k]) <= max_input_tokens

C38_SavedOnce ==
    \A a, b \in 1..Len(saved_courses) :
        /\ saved_courses[a].run = saved_courses[b].run
        /\ a # b => saved_courses[a].course.course_name # saved_courses[b].course.course_name

\* The event at position p is the start of the pipeline of a document.
PipelineStart(p) ==
    events[p].at = "start" /\ events[p].task = "process_document_pipeline"

\* The task ended without raising for the document before position p.
EndedBefore(task, doc, p) ==
    { q \in 1..(p - 1) :
        events[q] = [at |-> "end", task |-> task, doc |-> doc, ok |-> TRUE] }

\* The three tasks of the document's chain ended, one after the other,
\* before position p.
ChainEndedBefore(doc, p) ==
    \E q1 \in EndedBefore(ChainSteps[1], doc, p) :
    \E q2 \in EndedBefore(ChainSteps[2], doc, p) :
    \E q3 \in EndedBefore(ChainSteps[3], doc, p) : q1 < q2 /\ q2 < q3

PositionOf(doc) == CHOOSE i \in 1..Len(new_docs) : new_docs[i] = doc

\* The documents whose pipeline started, in the order of the starts.
Started == SelectSeq([p \in 1..Len(events) |->
                         IF PipelineStart(p) THEN events[p].doc ELSE 0],
                     LAMBDA d : d # 0)

\* C39: the documents one check queued are processed one at a time in
\* list order: at most one task of the pipeline is queued or running at
\* any moment; the pipeline of a document starts only after segmentation,
\* course generation and export of the document before it in the list
\* ended; while no task has raised, the pipelines started are those of the
\* first documents of the list, each once; and complete_document_pipeline
\* starts only after the chain of the last document ended.
C39_OneAtATimeInOrder ==
    /\ Cardinality(broker \cup running) <= 1
    /\ \A p \in 1..Len(events) :
          PipelineStart(p) =>
              /\ events[p].doc \in Range(new_docs)
              /\ PositionOf(events[p].doc) > 1 =>
                     ChainEndedBefore(new_docs[PositionOf(events[p].doc) - 1], p)
    /\ (\A p \in 1..Len(events) : events[p].ok) =>
           (Len(Started) <= Len(new_docs) /\ Started = SubSeq(new_docs, 1, Len(Started)))
    /\ \A p \in 1..Len(events) :
          events[p].task = "complete_document_pipeline" =>
              /\ ChainEndedBefore(new_docs[Len(new_docs)], p)
              /\ (\A q \in 1..p : events[q].ok) => Started = new_docs

\* Three documents were queued, every task succeeded and
\* complete_document_pipeline has ended.
C39_Witness ==
    /\ Len(new_docs) = 3
    /\ \A p \in 1..Len(events) : events[p].ok
    /\ events[Len(events)].task = "complete_document_pipeline"
    /\ events[Len(events)].at = "end"
    /\ broker = {} /\ running = {}
====
